---- MODULE Spec2Model ----
(***************************************************************************)
(* A model of the statistics module of HL7Viewer (HL7Stats): the address   *)
(* parser, the filter grammar, the per-message filter evaluation, the      *)
(* custom logic validator/evaluator and the extraction run.                *)
(*                                                                         *)
(* JavaScript strings are modelled as sequences of one-character strings,  *)
(* so that trim, toUpperCase, split, parseInt and the regular expressions  *)
(* of the source are computed character by character, as the engine does.  *)
(***************************************************************************)
EXTENDS Integers, Sequences, FiniteSets, TLC

VARIABLES
  pc,            \* position of the modelled call: "ready" before it, "done" after
  refArgument,   \* argument of parseFieldReference (a JavaScript value)
  parsedRef,     \* what parseFieldReference returned
  filterShape,   \* how the filter expression under test was written
  filterExpr,    \* argument of parseFilterExpression (a JavaScript value)
  parsedFilter,  \* what parseFilterExpression returned
  message,       \* the parsed message a condition is evaluated against
  condition,     \* the parsed condition handed to messageMatchesSingleFilter
  singleResult,  \* what messageMatchesSingleFilter returned
  written,       \* how the custom logic expression under test was written
  customExpr,    \* the custom logic expression handed to validateCustomLogic
  declaredLabels, \* the labels of the declared conditions
  validation,    \* what validateCustomLogic returned
  chosenFilters, \* the filtersConfig: conditions, their combination mode and custom expression
  logicTree,     \* how the custom expression of chosenFilters was written
  matchResult,   \* what messageMatchesFilters returned
  currentContent, \* the loaded text
  statsField,    \* the text of the field input
  extraction,    \* what extractFieldValues returned
  calls,         \* the calls of messageMatchesFilters and evaluateCustomLogic made by the run
  chartData,     \* the slices of the pie chart drawn for the run
  segmented,     \* the messages that parseMessagesForFiltering returned
  filterCounter, \* the number given to the filter row added last
  statsFiltersList, \* the filter rows of the page: label and text of the input
  filterLogic,   \* the value of the checked filterLogic radio button
  customLogicValue, \* the text of the custom logic input
  stats          \* what generateStatistics returned

addrVars == <<refArgument, parsedRef>>
filterVars == <<filterShape, filterExpr, parsedFilter>>
singleVars == <<message, condition, singleResult>>
logicVars == <<written, customExpr, declaredLabels, validation>>
matchVars == <<chosenFilters, logicTree, matchResult>>
runVars == <<currentContent, statsField, extraction, calls, stats, chartData,
            segmented>>
panelVars == <<filterCounter, statsFiltersList, filterLogic, customLogicValue>>
vars == <<pc, addrVars, filterVars, singleVars, logicVars, matchVars, runVars,
          panelVars>>

(***************************************************************************)
(* Bounds of the model.                                                    *)
(***************************************************************************)
\* the largest number of dot-separated parts of a generated field reference
MaxParts == 5
\* the largest number of blanks written on either side of a filter operator
MaxGap == 2
\* the largest number of lines that follow the header line of a message
MaxLines == 2
\* the largest number of tokens of a generated custom logic expression
MaxTokens == 4
\* the largest number of conditions that are combined
MaxFilters == 5
\* the largest number of filter rows of the page in a run
MaxRows == 3
\* the largest number of operators of a generated custom logic tree
MaxOps == 2
\* the largest number of lines of a generated text
MaxContentLines == 4
\* the largest number of distinct values of a charted text
MaxValues == 17
\* the largest number of values of a charted text that are extracted twice
MaxTwice == 2
\* the largest number of lines of a text whose fields are addressed
MaxFieldLines == 3
\* the largest number of lines of a text that is only segmented
MaxSegmentLines == 4
MaxWords == 5
MaxCounter == 4

(***************************************************************************)
(* JavaScript string primitives.                                           *)
(***************************************************************************)
LowerLetters == <<"a","b","c","d","e","f","g","h","i","j","k","l","m",
                  "n","o","p","q","r","s","t","u","v","w","x","y","z">>
UpperLetters == <<"A","B","C","D","E","F","G","H","I","J","K","L","M",
                  "N","O","P","Q","R","S","T","U","V","W","X","Y","Z">>
DigitChars == <<"0","1","2","3","4","5","6","7","8","9">>

Range(f) == {f[i] : i \in DOMAIN f}

LowerSet == Range(LowerLetters)
UpperSet == Range(UpperLetters)
DigitSet == Range(DigitChars)

\* String.prototype.toUpperCase on one character
UpperChar(c) ==
  IF c \in LowerSet
    THEN UpperLetters[CHOOSE i \in 1..26 : LowerLetters[i] = c]
    ELSE c

\* String.prototype.toLowerCase on one character
LowerChar(c) ==
  IF c \in UpperSet
    THEN LowerLetters[CHOOSE i \in 1..26 : UpperLetters[i] = c]
    ELSE c

ToUpperCase(s) == [i \in 1..Len(s) |-> UpperChar(s[i])]
ToLowerCase(s) == [i \in 1..Len(s) |-> LowerChar(s[i])]

\* the white space of String.prototype.trim and of the \s class
IsWS(c) == c \in {" ", "\t", "\n", "\r"}
IsDigit(c) == c \in DigitSet
\* the \w class: what \b separates from the rest
IsWordChar(c) == c \in LowerSet \cup UpperSet \cup DigitSet \cup {"_"}

DigitVal(c) == (CHOOSE i \in 1..10 : DigitChars[i] = c) - 1

RECURSIVE TrimStart(_)
TrimStart(s) ==
  IF s # <<>> /\ IsWS(Head(s)) THEN TrimStart(Tail(s)) ELSE s

RECURSIVE TrimEnd(_)
TrimEnd(s) ==
  IF s # <<>> /\ IsWS(s[Len(s)]) THEN TrimEnd(SubSeq(s, 1, Len(s) - 1)) ELSE s

\* String.prototype.trim
Trim(s) == TrimEnd(TrimStart(s))

\* s.startsWith(p)
StartsWith(s, p) == Len(s) >= Len(p) /\ SubSeq(s, 1, Len(p)) = p

\* s.substring(n) with a 0-based n
Substring(s, n) == SubSeq(s, n + 1, Len(s))

\* s.includes(t)
Includes(s, t) ==
  \E i \in 1..(Len(s) + 1) :
     i + Len(t) - 1 <= Len(s) /\ SubSeq(s, i, i + Len(t) - 1) = t

\* the characters of a string literal, one by one
Chars(str) == [i \in 1..Len(str) |-> SubSeq(str, i, i)]

\* the index (1-based) of the first occurrence of character c in s, 0 if none
RECURSIVE IndexFrom(_, _, _)
IndexFrom(s, c, i) ==
  IF i > Len(s) THEN 0
  ELSE IF s[i] = c THEN i
  ELSE IndexFrom(s, c, i + 1)

\* String.prototype.split on a one-character separator: "".split(".") is [""]
RECURSIVE SplitChar(_, _)
SplitChar(s, c) ==
  LET i == IndexFrom(s, c, 1)
  IN IF i = 0 THEN <<s>>
     ELSE <<SubSeq(s, 1, i - 1)>> \o SplitChar(SubSeq(s, i + 1, Len(s)), c)

\* Array.prototype.join
RECURSIVE Join(_, _)
Join(parts, sep) ==
  IF parts = <<>> THEN <<>>
  ELSE IF Len(parts) = 1 THEN parts[1]
  ELSE parts[1] \o sep \o Join(Tail(parts), sep)

RECURSIVE DigitPrefix(_)
DigitPrefix(s) ==
  IF s # <<>> /\ IsDigit(Head(s)) THEN <<Head(s)>> \o DigitPrefix(Tail(s)) ELSE <<>>

RECURSIVE DigitsValue(_)
DigitsValue(d) ==
  IF d = <<>> THEN 0
  ELSE 10 * DigitsValue(SubSeq(d, 1, Len(d) - 1)) + DigitVal(d[Len(d)])

\* parseInt(s, 10): leading white space is skipped, one sign is read, then the
\* longest run of decimal digits; what follows the digits is ignored; NaN when
\* there is no digit at that place.
ParseInt(s) ==
  LET t == TrimStart(s)
      signed == t # <<>> /\ Head(t) \in {"+", "-"}
      u == IF signed THEN Tail(t) ELSE t
      d == DigitPrefix(u)
  IN IF d = <<>> THEN [nan |-> TRUE, val |-> 0]
     ELSE [nan |-> FALSE,
           val |-> IF signed /\ Head(t) = "-" THEN 0 - DigitsValue(d)
                   ELSE DigitsValue(d)]

(***************************************************************************)
(* JavaScript values handed to the parsers: a string or something else.    *)
(***************************************************************************)
Str(s) == [type |-> "string", str |-> s]
Undefined == [type |-> "undefined", str |-> <<>>]
NumberValue == [type |-> "number", str |-> <<>>]

\* !v || typeof v !== 'string'
NotAString(v) == v.type # "string" \/ v.str = <<>>

\* null, as a parser returns it
Null == [ok |-> FALSE]
\* an absent component or subcomponent (undefined): the code tests it with !n
Absent == 0

(***************************************************************************)
(* The variables of a part of the program that a specification leaves out. *)
(***************************************************************************)
NoShape == [addr |-> <<>>, pre |-> 0, op |-> <<>>, post |-> 0, value |-> <<>>]

AddrIdle == refArgument = Undefined /\ parsedRef = Null

FilterIdle ==
  filterShape = NoShape /\ filterExpr = Undefined /\ parsedFilter = Null

NoMessage ==
  [fieldSeparator |-> "|", componentSeparator |-> "^",
   subcomponentSeparator |-> "&", segments |-> <<>>]

SingleIdle == message = NoMessage /\ condition = Null /\ singleResult = FALSE

NothingWritten == [tokens |-> <<>>, style |-> "none"]

LogicIdle ==
  /\ written = NothingWritten
  /\ customExpr = <<>>
  /\ declaredLabels = <<>>
  /\ validation = [valid |-> FALSE, error |-> "", unknown |-> <<>>]

\* no filtersConfig (null)
NoFilters == [filters |-> <<>>, logic |-> "", expression |-> <<>>]

NoTree == [ast |-> <<>>, letters |-> "none", gap |-> ""]

MatchIdle ==
  chosenFilters = NoFilters /\ logicTree = NoTree /\ matchResult = "undefined"

\* nothing returned yet
NoResult == [pending |-> TRUE]

\* the filter rows of the page as it is loaded: the one row F1, its input empty
FirstRow == [label |-> <<"F", "1">>, input |-> <<>>]

PanelIdle ==
  /\ filterCounter = 1
  /\ statsFiltersList = << FirstRow >>
  /\ filterLogic = "AND"
  /\ customLogicValue = <<>>

NoCalls == [messageMatchesFilters |-> 0, evaluateCustomLogic |-> 0]
NoSlices == <<>>

RunIdle ==
  /\ currentContent = <<>>
  /\ statsField = <<>>
  /\ extraction = NoResult
  /\ calls = NoCalls
  /\ stats = NoResult
  /\ chartData = NoSlices
  /\ segmented = <<>>

(***************************************************************************)
(* parseFieldReference                                                     *)
(***************************************************************************)
parseFieldReference(v) ==
  IF NotAString(v) THEN Null
  ELSE
    LET trimmed == ToUpperCase(Trim(v.str))
        parts == SplitChar(trimmed, ".")
    IN IF Len(parts) < 2 \/ Len(parts) > 4 THEN Null
       ELSE
         LET segment == parts[1]
             field == ParseInt(parts[2])
         IN IF segment = <<>> \/ field.nan \/ field.val < 1 THEN Null
            ELSE
              LET component == IF Len(parts) >= 3 THEN ParseInt(parts[3])
                               ELSE [nan |-> FALSE, val |-> Absent]
                  subcomponent == IF Len(parts) = 4 THEN ParseInt(parts[4])
                                  ELSE [nan |-> FALSE, val |-> Absent]
              IN IF Len(parts) >= 3 /\ (component.nan \/ component.val < 1)
                   THEN Null
                 ELSE IF Len(parts) = 4 /\ (subcomponent.nan \/ subcomponent.val < 1)
                   THEN Null
                 ELSE [ok |-> TRUE, segment |-> segment, field |-> field.val,
                       component |-> component.val,
                       subcomponent |-> subcomponent.val]

(***************************************************************************)
(* parseFilterExpression                                                   *)
(***************************************************************************)
S_exists == <<"e","x","i","s","t","s">>
S_notexists == <<"!","e","x","i","s","t","s">>
S_contains == <<"c","o","n","t","a","i","n","s">>
S_notcontains == <<"!","c","o","n","t","a","i","n","s">>

\* the text of an operator, as the regular expressions are built from it
OpText(op) ==
  CASE op = "!=" -> <<"!","=">>
    [] op = "=" -> <<"=">>
    [] op = "!contains" -> S_notcontains
    [] op = "contains" -> S_contains
    [] op = "!exists" -> S_notexists
    [] op = "exists" -> S_exists

\* the number of white-space characters s starts with
LeadingWS(s) == Len(s) - Len(TrimStart(s))

\* /\s+(!exists|exists)\s*$/i matched from the start of t: the text that
\* follows group 1 of the unary pattern
MatchesUnaryTail(t) ==
  /\ LeadingWS(t) >= 1
  /\ ToLowerCase(Trim(t)) \in {S_notexists, S_exists}

\* trimmed.match(/^(.+?)\s+(!exists|exists)\s*$/i): the lazy group 1 is the
\* shortest non-empty prefix that the rest of the pattern can follow
UnaryMatch(trimmed) ==
  LET ks == { k \in 1..Len(trimmed) : MatchesUnaryTail(Substring(trimmed, k)) }
  IN IF ks = {} THEN [matched |-> FALSE, g1 |-> <<>>, g2 |-> <<>>]
     ELSE LET k == CHOOSE k \in ks : \A j \in ks : k <= j
          IN [matched |-> TRUE,
              g1 |-> SubSeq(trimmed, 1, k),
              g2 |-> Trim(Substring(trimmed, k))]

\* the end (exclusive, 1-based) of a match of /\s*LIT\s*/i that starts at
\* index q of s, 0 when the pattern does not match there
OpMatchEnd(s, q, lit) ==
  LET rest == SubSeq(s, q, Len(s))
      a == TrimStart(rest)
  IN IF StartsWith(ToLowerCase(a), lit)
       THEN LET b == Substring(a, Len(lit))
            IN Len(s) + 1 - Len(TrimStart(b))
       ELSE 0

\* String.prototype.split with the regular expression /\s*LIT\s*/i: the
\* pieces between the successive leftmost matches
RECURSIVE SplitOpFrom(_, _, _, _)
SplitOpFrom(s, p, q, lit) ==
  IF q > Len(s) THEN << SubSeq(s, p, Len(s)) >>
  ELSE LET e == OpMatchEnd(s, q, lit)
       IN IF e = 0 THEN SplitOpFrom(s, p, q + 1, lit)
          ELSE << SubSeq(s, p, q - 1) >> \o SplitOpFrom(s, e, e, lit)

SplitOp(s, lit) == SplitOpFrom(s, 1, 1, lit)

\* the operators tried with the bare spelling before the negated one
BinaryOperatorsBareFirst == << "=", "!=", "contains", "!contains" >>

\* const operators = ['!=', '=', '!contains', 'contains']
BinaryOperators == << "!=", "=", "!contains", "contains" >>

\* the for loop over the operators, from the i-th on
RECURSIVE TryBinary(_, _)
TryBinary(trimmed, i) ==
  IF i > Len(BinaryOperators) THEN Null
  ELSE
    LET op == BinaryOperators[i]
        parts == SplitOp(trimmed, OpText(op))
    IN IF Len(parts) = 2
            /\ Trim(parts[1]) # <<>>
            /\ parseFieldReference(Str(Trim(parts[1]))).ok
         THEN [ok |-> TRUE, fieldRef |-> Trim(parts[1]), operator |-> op,
               value |-> Trim(parts[2])]
         ELSE TryBinary(trimmed, i + 1)

parseFilterExpression(v) ==
  IF NotAString(v) THEN Null
  ELSE
    LET trimmed == Trim(v.str)
        unaryMatch == UnaryMatch(trimmed)
    IN IF trimmed = <<>> THEN Null
       ELSE IF /\ unaryMatch.matched
               /\ Trim(unaryMatch.g1) # <<>>
               /\ parseFieldReference(Str(Trim(unaryMatch.g1))).ok
         THEN [ok |-> TRUE, fieldRef |-> Trim(unaryMatch.g1),
               operator |-> IF ToLowerCase(unaryMatch.g2) = S_notexists
                              THEN "!exists" ELSE "exists",
               value |-> <<>>]
       ELSE TryBinary(trimmed, 1)

(***************************************************************************)
(* extractComponentValue and extractValueFromSegment                       *)
(***************************************************************************)
\* the drill-down with the pieces counted from 0
extractComponentValueFromZero(fieldValue, compNum, subcompNum, compSep, subcompSep) ==
  IF fieldValue = <<>> THEN <<>>
  ELSE IF compNum = Absent THEN fieldValue
  ELSE
    LET components == SplitChar(fieldValue, compSep)
    IN IF compNum >= Len(components) THEN <<>>
       ELSE
         LET compValue == components[compNum + 1]
         IN IF subcompNum = Absent THEN compValue
            ELSE
              LET subcomponents == SplitChar(compValue, subcompSep)
              IN IF subcompNum >= Len(subcomponents) THEN <<>>
                 ELSE subcomponents[subcompNum + 1]

extractComponentValue(fieldValue, compNum, subcompNum, compSep, subcompSep) ==
  IF fieldValue = <<>> THEN <<>>
  ELSE IF compNum = Absent THEN fieldValue
  ELSE
    LET components == SplitChar(fieldValue, compSep)
        compIndex == compNum - 1
    IN IF compIndex < 0 \/ compIndex >= Len(components) THEN <<>>
       ELSE
         LET compValue == components[compIndex + 1]
         IN IF subcompNum = Absent THEN compValue
            ELSE
              LET subcomponents == SplitChar(compValue, subcompSep)
                  subcompIndex == subcompNum - 1
              IN IF subcompIndex < 0 \/ subcompIndex >= Len(subcomponents)
                   THEN <<>>
                   ELSE subcomponents[subcompIndex + 1]

S_MSH == <<"M","S","H">>

\* the header segment read like the other kinds: field N is fields[N-1]
extractValueFromSegmentNoOffset(segment, fieldNum, compNum, subcompNum, compSep, subcompSep) ==
  LET fieldIndex == fieldNum - 1
  IN IF fieldIndex < 0 \/ fieldIndex >= Len(segment.fields) THEN <<>>
     ELSE extractComponentValue(segment.fields[fieldIndex + 1],
                                compNum, subcompNum, compSep, subcompSep)

extractValueFromSegment(segment, fieldNum, compNum, subcompNum, compSep, subcompSep) ==
  IF segment.segmentId = S_MSH
    THEN IF fieldNum = 1 THEN <<segment.fieldSeparator>>
         ELSE IF fieldNum = 2 THEN segment.fields[1]
         ELSE LET fieldIndex == fieldNum - 2
              IN IF fieldIndex < 0 \/ fieldIndex >= Len(segment.fields) THEN <<>>
                 ELSE extractComponentValue(segment.fields[fieldIndex + 1],
                                            compNum, subcompNum, compSep, subcompSep)
    ELSE LET fieldIndex == fieldNum - 1
         IN IF fieldIndex < 0 \/ fieldIndex >= Len(segment.fields) THEN <<>>
            ELSE extractComponentValue(segment.fields[fieldIndex + 1],
                                       compNum, subcompNum, compSep, subcompSep)

(***************************************************************************)
(* messageMatchesSingleFilter                                              *)
(***************************************************************************)
\* the index of the last segment of the kind, 0 when there is none
FindLastSegment(messageSegments, segmentId) ==
  LET hits == { i \in 1..Len(messageSegments) :
                  messageSegments[i].segmentId = segmentId }
  IN IF hits = {} THEN 0 ELSE CHOOSE i \in hits : \A j \in hits : j <= i

\* messageSegments.find(s => s.segmentId === parsed.segment): the index of
\* the first segment of the kind, 0 when find returns undefined
RECURSIVE FindFrom(_, _, _)
FindFrom(messageSegments, segmentId, i) ==
  IF i > Len(messageSegments) THEN 0
  ELSE IF messageSegments[i].segmentId = segmentId THEN i
  ELSE FindFrom(messageSegments, segmentId, i + 1)

FindSegment(messageSegments, segmentId) == FindFrom(messageSegments, segmentId, 1)

\* the negation operators without !exists
NegationOperatorsShort == {"!=", "!contains"}

\* the operators that match when the segment is missing
NegationOperators == {"!=", "!contains", "!exists"}

messageMatchesSingleFilter(messageSegments, filter, componentSeparator, subcomponentSeparator) ==
  LET parsed == parseFieldReference(Str(filter.fieldRef))
  IN IF ~parsed.ok THEN TRUE
     ELSE
       LET at == FindSegment(messageSegments, parsed.segment)
       IN IF at = 0 THEN filter.operator \in NegationOperators
          ELSE
            LET value == extractValueFromSegment(messageSegments[at], parsed.field,
                           parsed.component, parsed.subcomponent,
                           componentSeparator, subcomponentSeparator)
                fieldValue == ToUpperCase(Trim(value))
                filterValue == ToUpperCase(Trim(filter.value))
            IN CASE filter.operator = "=" -> fieldValue = filterValue
                 [] filter.operator = "!=" -> fieldValue # filterValue
                 [] filter.operator = "contains" -> Includes(fieldValue, filterValue)
                 [] filter.operator = "!contains" -> ~Includes(fieldValue, filterValue)
                 [] filter.operator = "exists" -> Len(fieldValue) > 0
                 [] filter.operator = "!exists" -> Len(fieldValue) = 0
                 [] OTHER -> TRUE

(***************************************************************************)
(* Regular-expression steps shared by validateCustomLogic and              *)
(* evaluateCustomLogic.                                                    *)
(***************************************************************************)
\* \b at the place before s[i] (i in 1..Len(s)+1): exactly one of the two
\* neighbours is a word character
IsBoundary(s, i) ==
  (i > 1 /\ IsWordChar(s[i - 1])) # (i <= Len(s) /\ IsWordChar(s[i]))

\* /\bWORD\b/ matches at index i of s
MatchWordAt(s, i, word) ==
  /\ i + Len(word) - 1 <= Len(s)
  /\ SubSeq(s, i, i + Len(word) - 1) = word
  /\ IsBoundary(s, i)
  /\ IsBoundary(s, i + Len(word))

\* s.replace(/\bWORD\b/g, repl), from index i on
RECURSIVE ReplaceWordFrom(_, _, _, _)
ReplaceWordFrom(s, i, word, repl) ==
  IF i > Len(s) THEN <<>>
  ELSE IF word # <<>> /\ MatchWordAt(s, i, word)
    THEN repl \o ReplaceWordFrom(s, i + Len(word), word, repl)
  ELSE <<s[i]>> \o ReplaceWordFrom(s, i + 1, word, repl)

ReplaceWord(s, word, repl) == ReplaceWordFrom(s, 1, word, repl)

\* s.replace(/[...]/g, ''): s without the characters of the class
RECURSIVE RemoveChars(_, _)
RemoveChars(s, class) ==
  IF s = <<>> THEN <<>>
  ELSE IF Head(s) \in class THEN RemoveChars(Tail(s), class)
  ELSE <<Head(s)>> \o RemoveChars(Tail(s), class)

\* x put into a list sorted by descending length, after the entries that are
\* as long (Array.prototype.sort is stable)
RECURSIVE InsertByLength(_, _)
InsertByLength(sorted, x) ==
  IF sorted = <<>> THEN <<x>>
  ELSE IF Len(Head(sorted)) >= Len(x)
    THEN <<Head(sorted)>> \o InsertByLength(Tail(sorted), x)
  ELSE <<x>> \o sorted

\* [...labels].sort((a, b) => b.length - a.length)
RECURSIVE SortByLengthDesc(_)
SortByLengthDesc(labels) ==
  IF labels = <<>> THEN <<>>
  ELSE InsertByLength(SortByLengthDesc(SubSeq(labels, 1, Len(labels) - 1)),
                      labels[Len(labels)])

\* the forEach over the sorted labels: each label, upper-cased, replaced where
\* it stands as a word by what the table repl holds for it
RECURSIVE ReplaceLabels(_, _, _)
ReplaceLabels(s, labels, repl) ==
  IF labels = <<>> THEN s
  ELSE ReplaceLabels(ReplaceWord(s, ToUpperCase(Head(labels)), repl[Head(labels)]),
                     Tail(labels), repl)

(***************************************************************************)
(* validateCustomLogic                                                     *)
(***************************************************************************)
\* the running count of the parenthesis loop: -1 once a closing parenthesis
\* came before its opening one
RECURSIVE ParenCount(_, _, _)
ParenCount(expr, i, parenCount) ==
  IF i > Len(expr) THEN parenCount
  ELSE LET n == IF expr[i] = "(" THEN parenCount + 1
                ELSE IF expr[i] = ")" THEN parenCount - 1
                ELSE parenCount
       IN IF n < 0 THEN -1 ELSE ParenCount(expr, i + 1, n)

\* simplified.match(/F\d+/gi): the successive matches, from index i on
RECURSIVE MatchFilterRefs(_, _)
MatchFilterRefs(s, i) ==
  IF i > Len(s) THEN <<>>
  ELSE IF s[i] \in {"F", "f"} /\ DigitPrefix(Substring(s, i)) # <<>>
    THEN LET d == DigitPrefix(Substring(s, i))
         IN << <<s[i]>> \o d >> \o MatchFilterRefs(s, i + 1 + Len(d))
  ELSE MatchFilterRefs(s, i + 1)

\* two neighbours of s taken from the classes a and b, in that order
HasPair(s, a, b) == \E i \in 1..(Len(s) - 1) : s[i] \in a /\ s[i + 1] \in b

Invalid(reason) == [valid |-> FALSE, error |-> reason, unknown |-> <<>>]
Valid == [valid |-> TRUE, error |-> "", unknown |-> <<>>]

\* the placeholder checks of lines 213-231 without the one for two labels
AdjacencyChecksNoXX(simplified) ==
  IF simplified # <<>> /\ simplified[1] \in {"&", "|"}
    THEN Invalid("Expression cannot start with AND/OR")
  ELSE IF simplified # <<>> /\ simplified[Len(simplified)] \in {"&", "|", "!"}
    THEN Invalid("Expression cannot end with AND/OR/NOT")
  ELSE IF HasPair(simplified, {"&", "|"}, {"&", "|"})
    THEN Invalid("Cannot have consecutive AND/OR operators")
  ELSE IF HasPair(simplified, {"!"}, {"&", "|"})
    THEN Invalid("NOT must be followed by a filter label, not AND/OR")
  ELSE IF HasPair(simplified, {"X"}, {"!"})
    THEN Invalid("Missing AND/OR between filter label and NOT")
  ELSE Valid

\* the checks for consecutive operators or missing operands (lines 213-231)
AdjacencyChecks(simplified) ==
  IF simplified # <<>> /\ simplified[1] \in {"&", "|"}
    THEN Invalid("Expression cannot start with AND/OR")
  ELSE IF simplified # <<>> /\ simplified[Len(simplified)] \in {"&", "|", "!"}
    THEN Invalid("Expression cannot end with AND/OR/NOT")
  ELSE IF HasPair(simplified, {"&", "|"}, {"&", "|"})
    THEN Invalid("Cannot have consecutive AND/OR operators")
  ELSE IF HasPair(simplified, {"!"}, {"&", "|"})
    THEN Invalid("NOT must be followed by a filter label, not AND/OR")
  ELSE IF HasPair(simplified, {"X"}, {"!"})
    THEN Invalid("Missing AND/OR between filter label and NOT")
  ELSE IF HasPair(simplified, {"X"}, {"X"})
    THEN Invalid("Missing AND/OR between filter labels")
  ELSE Valid

validateCustomLogic(expression, availableLabels) ==
  IF expression = <<>> \/ Trim(expression) = <<>>
    THEN Invalid("Custom logic expression is empty")
  ELSE
    LET expr == ToUpperCase(Trim(expression))
        parenCount == ParenCount(expr, 1, 0)
        sortedLabels == SortByLengthDesc(availableLabels)
        labelled == ReplaceLabels(expr, sortedLabels,
                                  [l \in Range(availableLabels) |-> <<"X">>])
        normalized == ReplaceWord(ReplaceWord(ReplaceWord(labelled,
                         Chars("AND"), <<"&">>), Chars("OR"), <<"|">>),
                         Chars("NOT"), <<"!">>)
        simplified == RemoveChars(normalized, {" ", "\t", "\n", "\r", "(", ")"})
        unmatchedFilters == MatchFilterRefs(simplified, 1)
    IN IF parenCount < 0
         THEN Invalid("Unbalanced parentheses - extra closing parenthesis")
       ELSE IF parenCount # 0
         THEN Invalid("Unbalanced parentheses - missing closing parenthesis")
       ELSE IF unmatchedFilters # <<>>
         THEN [valid |-> FALSE, error |-> "Unknown filter label(s)",
               unknown |-> unmatchedFilters]
       \* /^[X&|!]+$/ fails and something is left once X & | ! are removed
       ELSE IF RemoveChars(simplified, {"X", "&", "|", "!"}) # <<>>
         THEN Invalid("Invalid characters or words in expression")
       ELSE AdjacencyChecks(simplified)

(***************************************************************************)
(* The JavaScript expression that evaluateCustomLogic builds and has       *)
(* evaluated by Function(...)(): tokens, then the grammar                  *)
(*   || over && over | over & over ! over true, false, identifier, ( ).    *)
(* A value is "true", "false", "0" or "1"; "ReferenceError" stands for an  *)
(* operand whose evaluation throws (an unknown identifier).                *)
(***************************************************************************)
RECURSIVE WordPrefix(_)
WordPrefix(s) ==
  IF s # <<>> /\ IsWordChar(Head(s)) THEN <<Head(s)>> \o WordPrefix(Tail(s)) ELSE <<>>

RECURSIVE JsTokens(_, _)
JsTokens(s, i) ==
  IF i > Len(s) THEN <<>>
  ELSE IF IsWS(s[i]) THEN JsTokens(s, i + 1)
  ELSE IF s[i] \in {"(", ")", "!"} THEN <<s[i]>> \o JsTokens(s, i + 1)
  ELSE IF s[i] \in {"&", "|"}
    THEN IF i < Len(s) /\ s[i + 1] = s[i]
           THEN << IF s[i] = "&" THEN "&&" ELSE "||" >> \o JsTokens(s, i + 2)
           ELSE <<s[i]>> \o JsTokens(s, i + 1)
  ELSE IF IsWordChar(s[i])
    THEN LET w == WordPrefix(Substring(s, i - 1))
         IN << IF w = Chars("true") THEN "true"
               ELSE IF w = Chars("false") THEN "false"
               ELSE "identifier" >> \o JsTokens(s, i + Len(w))
  ELSE <<"?">> \o JsTokens(s, i + 1)

JsTruthy(v) == v \in {"true", "1"}
JsBool(b) == IF b THEN "true" ELSE "false"

JsNot(a) == IF a = "ReferenceError" THEN a ELSE JsBool(~JsTruthy(a))
JsAnd(a, b) == IF a = "ReferenceError" \/ ~JsTruthy(a) THEN a ELSE b
JsOr(a, b) == IF a = "ReferenceError" \/ JsTruthy(a) THEN a ELSE b
JsBitAnd(a, b) ==
  IF "ReferenceError" \in {a, b} THEN "ReferenceError"
  ELSE IF JsTruthy(a) /\ JsTruthy(b) THEN "1" ELSE "0"
JsBitOr(a, b) ==
  IF "ReferenceError" \in {a, b} THEN "ReferenceError"
  ELSE IF JsTruthy(a) \/ JsTruthy(b) THEN "1" ELSE "0"

SyntaxError == [ok |-> FALSE, val |-> "SyntaxError", pos |-> 0]
Parsed(v, next) == [ok |-> TRUE, val |-> v, pos |-> next]

\* the value of a binary operator on two values
JsApply(op, a, b) ==
  CASE op = "||" -> JsOr(a, b)
    [] op = "&&" -> JsAnd(a, b)
    [] op = "|" -> JsBitOr(a, b)
    [] op = "&" -> JsBitAnd(a, b)

\* left op right, once the right operand r is parsed
JsBinary(op, left, r) ==
  IF r.ok THEN Parsed(JsApply(op, left.val, r.val), r.pos) ELSE SyntaxError

\* ! r, once the operand r is parsed
JsNegated(r) == IF r.ok THEN Parsed(JsNot(r.val), r.pos) ELSE SyntaxError

\* ( r ), once the inner expression r is parsed
JsClosed(toks, r) ==
  IF r.ok /\ r.pos <= Len(toks) /\ toks[r.pos] = ")"
    THEN Parsed(r.val, r.pos + 1)
    ELSE SyntaxError

\* the token at position i is op
JsAt(toks, i, op) == i <= Len(toks) /\ toks[i] = op

RECURSIVE JsOrExpr(_, _), JsOrRest(_, _), JsAndExpr(_, _), JsAndRest(_, _),
          JsBitOrExpr(_, _), JsBitOrRest(_, _), JsBitAndExpr(_, _),
          JsBitAndRest(_, _), JsUnary(_, _), JsPrimary(_, _)

JsPrimary(toks, i) ==
  IF i > Len(toks) THEN SyntaxError
  ELSE IF toks[i] \in {"true", "false"} THEN Parsed(toks[i], i + 1)
  ELSE IF toks[i] = "identifier" THEN Parsed("ReferenceError", i + 1)
  ELSE IF toks[i] = "(" THEN JsClosed(toks, JsOrExpr(toks, i + 1))
  ELSE SyntaxError

JsUnary(toks, i) ==
  IF JsAt(toks, i, "!") THEN JsNegated(JsUnary(toks, i + 1))
  ELSE JsPrimary(toks, i)

JsBitAndRest(toks, left) ==
  IF left.ok /\ JsAt(toks, left.pos, "&")
    THEN JsBitAndRest(toks, JsBinary("&", left, JsUnary(toks, left.pos + 1)))
    ELSE left

JsBitAndExpr(toks, i) == JsBitAndRest(toks, JsUnary(toks, i))

JsBitOrRest(toks, left) ==
  IF left.ok /\ JsAt(toks, left.pos, "|")
    THEN JsBitOrRest(toks, JsBinary("|", left, JsBitAndExpr(toks, left.pos + 1)))
    ELSE left

JsBitOrExpr(toks, i) == JsBitOrRest(toks, JsBitAndExpr(toks, i))

JsAndRest(toks, left) ==
  IF left.ok /\ JsAt(toks, left.pos, "&&")
    THEN JsAndRest(toks, JsBinary("&&", left, JsBitOrExpr(toks, left.pos + 1)))
    ELSE left

JsAndExpr(toks, i) == JsAndRest(toks, JsBitOrExpr(toks, i))

JsOrRest(toks, left) ==
  IF left.ok /\ JsAt(toks, left.pos, "||")
    THEN JsOrRest(toks, JsBinary("||", left, JsAndExpr(toks, left.pos + 1)))
    ELSE left

JsOrExpr(toks, i) == JsOrRest(toks, JsAndExpr(toks, i))

\* the value of the whole text, once it is parsed up to r
JsCompleted(toks, r) ==
  IF r.ok /\ r.pos = Len(toks) + 1 THEN r.val ELSE "SyntaxError"

JsProgram(toks) == JsCompleted(toks, JsOrExpr(toks, 1))

\* Function('"use strict"; return (' + evalExpr + ')')(): the value, or
\* "SyntaxError" / "ReferenceError" for what it throws
JsEvaluate(evalExpr) == JsProgram(<<"(">> \o JsTokens(evalExpr, 1) \o <<")">>)

(***************************************************************************)
(* evaluateCustomLogic                                                     *)
(* An object such as filterResults is the sequence of its properties,      *)
(* [key, value], in insertion order.                                       *)
(***************************************************************************)
RECURSIVE ObjectKeys(_)
ObjectKeys(obj) ==
  IF obj = <<>> THEN <<>> ELSE <<Head(obj).key>> \o ObjectKeys(Tail(obj))

RECURSIVE ObjectValues(_)
ObjectValues(obj) ==
  IF obj = <<>> THEN <<>> ELSE <<Head(obj).value>> \o ObjectValues(Tail(obj))

HasKey(obj, k) == \E i \in 1..Len(obj) : obj[i].key = k

\* obj[k]
Get(obj, k) == obj[CHOOSE i \in 1..Len(obj) : obj[i].key = k].value

\* obj[k] = v
Put(obj, k, v) ==
  IF HasKey(obj, k)
    THEN [i \in 1..Len(obj) |-> IF obj[i].key = k THEN [key |-> k, value |-> v]
                                ELSE obj[i]]
    ELSE Append(obj, [key |-> k, value |-> v])

\* the replacements with OR written as the single bar
JsOperatorsSingleBar(s) ==
  ReplaceWord(ReplaceWord(ReplaceWord(s, Chars("AND"), <<"&","&">>),
              Chars("OR"), <<"|">>), Chars("NOT"), <<"!">>)

\* .replace(/\bAND\b/g, '&&').replace(/\bOR\b/g, '||').replace(/\bNOT\b/g, '!')
JsOperators(s) ==
  ReplaceWord(ReplaceWord(ReplaceWord(s, Chars("AND"), <<"&","&">>),
              Chars("OR"), <<"|","|">>), Chars("NOT"), <<"!">>)

\* the characters of /^[truefalse&|!() ]+$/i
AllowedEvalChars ==
  { "t","r","u","e","f","a","l","s","T","R","U","E","F","A","L","S",
    "&","|","!","(",")"," " }

\* 'true' or 'false' for every label of filterResults
TruthTable(filterResults) ==
  [l \in Range(ObjectKeys(filterResults)) |->
     IF Get(filterResults, l) THEN Chars("true") ELSE Chars("false")]

\* the text handed to Function: labels replaced by true/false, then operators
EvalText(expression, filterResults) ==
  JsOperators(ReplaceLabels(ToUpperCase(expression),
                            SortByLengthDesc(ObjectKeys(filterResults)),
                            TruthTable(filterResults)))

\* the try block ends with the value, or in the catch when it threw
Returned(value) ==
  IF value \in {"SyntaxError", "ReferenceError"}
    THEN [value |-> "true", path |-> "caught"]
    ELSE [value |-> value, path |-> "evaluated"]

\* the value returned for the text and the path that returned it
OutcomeOf(evalExpr) ==
  IF evalExpr = <<>> \/ \E i \in 1..Len(evalExpr) : evalExpr[i] \notin AllowedEvalChars
    THEN [value |-> "true", path |-> "invalid characters"]
    ELSE Returned(JsEvaluate(evalExpr))

EvalOutcome(expression, filterResults) ==
  OutcomeOf(EvalText(expression, filterResults))

evaluateCustomLogic(expression, filterResults) ==
  EvalOutcome(expression, filterResults).value

\* the call Function('"use strict"; return (' + evalExpr + ')') of line 261:
\* made unless the character test returned before it, with the body given
FunctionCall(expression, filterResults) ==
  IF EvalOutcome(expression, filterResults).path = "invalid characters"
    THEN [called |-> FALSE]
    ELSE [called |-> TRUE,
          body |-> Chars("\"use strict\"; return (")
                   \o EvalText(expression, filterResults) \o <<")">>]

(***************************************************************************)
(* messageMatchesFilters                                                   *)
(***************************************************************************)
\* values.every(r => r === true)
Every(values) == \A i \in 1..Len(values) : values[i] = TRUE

\* some read as every
SomeAsEvery(values) == \A i \in 1..Len(values) : values[i] = TRUE

\* values.some(r => r === true)
Some(values) == \E i \in 1..Len(values) : values[i] = TRUE

\* the result of one filter: true when its expression does not parse
FilterResult(parsed, messageSegments, componentSeparator, subcomponentSeparator) ==
  IF parsed.ok
    THEN messageMatchesSingleFilter(messageSegments, parsed,
                                    componentSeparator, subcomponentSeparator)
    ELSE TRUE

\* the forEach that builds filterResults, from the i-th filter on
RECURSIVE BuildFilterResults(_, _, _, _, _, _)
BuildFilterResults(filterResults, filters, i, messageSegments, componentSeparator, subcomponentSeparator) ==
  IF i > Len(filters) THEN filterResults
  ELSE BuildFilterResults(
         Put(filterResults, filters[i].label,
             FilterResult(parseFilterExpression(Str(filters[i].expression)),
                          messageSegments, componentSeparator, subcomponentSeparator)),
         filters, i + 1, messageSegments, componentSeparator, subcomponentSeparator)

\* the branches that follow the forEach, on the filterResults it built
CombineResults(filtersConfig, filterResults) ==
  IF filtersConfig.logic = "single" \/ Len(filtersConfig.filters) = 1
    THEN JsBool(Get(filterResults, filtersConfig.filters[1].label))
  ELSE IF filtersConfig.logic = "AND"
    THEN JsBool(Every(ObjectValues(filterResults)))
  ELSE IF filtersConfig.logic = "OR"
    THEN JsBool(Some(ObjectValues(filterResults)))
  ELSE IF filtersConfig.logic = "custom" /\ filtersConfig.expression # <<>>
    THEN evaluateCustomLogic(filtersConfig.expression, filterResults)
  ELSE JsBool(Every(ObjectValues(filterResults)))

messageMatchesFilters(messageSegments, filtersConfig, componentSeparator, subcomponentSeparator) ==
  IF Len(filtersConfig.filters) = 0 THEN "true"
  ELSE CombineResults(filtersConfig,
         BuildFilterResults(<<>>, filtersConfig.filters, 1, messageSegments,
                            componentSeparator, subcomponentSeparator))

(***************************************************************************)
(* parseMessagesForFiltering                                               *)
(***************************************************************************)
\* the segment kinds the viewer knows (HL7_SEGMENT_IDS of the definitions
\* table; the README lists them)
HL7_SEGMENT_IDS ==
  { Chars(k) : k \in {"MSH", "EVN", "PID", "PD1", "NK1", "PV1", "PV2", "ORC",
                      "OBR", "OBX", "DG1", "AL1", "IN1", "IN2", "GT1", "NTE",
                      "RXA", "RXR", "SCH", "FT1", "PR1", "SPM"} }

\* content.split(/\r\n|\n|\r/)
RECURSIVE SplitLinesFrom(_, _)
\* the lines of s from position p on: up to the next terminator, and on
SplitLinesFrom(s, p) ==
  LET terminators == { q \in p..Len(s) : s[q] \in {"\n", "\r"} }
  IN IF terminators = {} THEN << SubSeq(s, p, Len(s)) >>
     ELSE LET q == CHOOSE t \in terminators : \A u \in terminators : t <= u
              after == IF s[q] = "\r" /\ q < Len(s) /\ s[q + 1] = "\n"
                         THEN q + 2 ELSE q + 1
          IN << SubSeq(s, p, q - 1) >> \o SplitLinesFrom(s, after)

SplitLines(content) == SplitLinesFrom(content, 1)

\* the fields of one line (lines 374-385)
SegmentFields(trimmedLine, segmentId, fieldSeparator) ==
  IF segmentId = S_MSH
    THEN SplitChar(Substring(trimmedLine, 4), fieldSeparator)
    ELSE LET afterId == Substring(trimmedLine, 3)
         IN IF StartsWith(afterId, <<fieldSeparator>>)
              THEN SplitChar(Substring(afterId, 1), fieldSeparator)
              ELSE SplitChar(afterId, fieldSeparator)

\* the loop's variables with the bar as every delimiter
ParserStartAllBars ==
  [messages |-> <<>>, open |-> FALSE, currentMessage |-> NoMessage,
   fieldSeparator |-> "|", componentSeparator |-> "|",
   subcomponentSeparator |-> "|"]

\* the loop's variables before the first line
ParserStart ==
  [messages |-> <<>>, open |-> FALSE, currentMessage |-> NoMessage,
   fieldSeparator |-> "|", componentSeparator |-> "^",
   subcomponentSeparator |-> "&"]

\* one iteration of the for loop over the lines
ParseLine(st, line) ==
  LET trimmedLine == Trim(line)
      segmentId == SubSeq(trimmedLine, 1, IF Len(trimmedLine) < 3
                                            THEN Len(trimmedLine) ELSE 3)
      isHeader == segmentId = S_MSH
      fs == IF isHeader /\ Len(trimmedLine) > 3 THEN trimmedLine[4]
            ELSE st.fieldSeparator
      cs == IF isHeader /\ Len(trimmedLine) > 7 THEN trimmedLine[5]
            ELSE st.componentSeparator
      ss == IF isHeader /\ Len(trimmedLine) > 7 THEN trimmedLine[8]
            ELSE st.subcomponentSeparator
      saved == IF isHeader /\ st.open THEN Append(st.messages, st.currentMessage)
               ELSE st.messages
      opened == IF isHeader
                  THEN [fieldSeparator |-> fs, componentSeparator |-> cs,
                        subcomponentSeparator |-> ss, segments |-> <<>>]
                  ELSE st.currentMessage
      isOpen == st.open \/ isHeader
      stored == IF isOpen /\ segmentId \in HL7_SEGMENT_IDS
                  THEN [opened EXCEPT !.segments =
                          Append(@, [segmentId |-> segmentId,
                                     fields |-> SegmentFields(trimmedLine, segmentId, fs),
                                     fieldSeparator |-> fs,
                                     componentSeparator |-> cs,
                                     subcomponentSeparator |-> ss])]
                  ELSE opened
  IN IF trimmedLine = <<>> THEN st
     ELSE [messages |-> saved, open |-> isOpen, currentMessage |-> stored,
           fieldSeparator |-> fs, componentSeparator |-> cs,
           subcomponentSeparator |-> ss]

RECURSIVE ParseLines(_, _, _)
ParseLines(st, lines, i) ==
  IF i > Len(lines) THEN st
  ELSE ParseLines(ParseLine(st, lines[i]), lines, i + 1)

\* the messages pushed inside the loop only, the one still open left out
parseMessagesForFilteringLastDropped(content) ==
  ParseLines(ParserStart, SplitLines(content), 1).messages

parseMessagesForFiltering(content) ==
  LET st == ParseLines(ParserStart, SplitLines(content), 1)
  IN IF st.open THEN Append(st.messages, st.currentMessage) ELSE st.messages

(***************************************************************************)
(* extractFieldValues                                                      *)
(* A returned {error: ...} is the record of that one field; the text of    *)
(* the error is kept as its fixed message, the reason and the labels that  *)
(* the template inserts into it.                                           *)
(***************************************************************************)
ErrorResult(text, reason, labels) ==
  [error |-> [message |-> text, reason |-> reason, labels |-> labels]]

\* extractionResult.error is set
HasError(result) == "error" \in DOMAIN result

\* the labels of the filters that parseFilterExpression rejects
RECURSIVE InvalidFilters(_)
InvalidFilters(filters) ==
  IF filters = <<>> THEN <<>>
  ELSE (IF parseFilterExpression(Str(Head(filters).expression)).ok THEN <<>>
        ELSE << Head(filters).label >>) \o InvalidFilters(Tail(filters))

\* filtersConfig.filters.map(f => f.label)
RECURSIVE LabelsOf(_)
LabelsOf(filters) ==
  IF filters = <<>> THEN <<>>
  ELSE << Head(filters).label >> \o LabelsOf(Tail(filters))

\* the custom logic check that only looks for a missing expression
CustomLogicErrorUnvalidated(filtersConfig) ==
  IF filtersConfig.logic # "custom" THEN NoResult
  ELSE IF Trim(filtersConfig.expression) = <<>>
    THEN ErrorResult("Please enter a custom logic expression", "", <<>>)
  ELSE NoResult

\* the error of a failed validation
ValidationError(outcome) ==
  IF ~outcome.valid
    THEN ErrorResult("Invalid custom logic", outcome.error, outcome.unknown)
    ELSE NoResult

\* the error of the custom logic check, NoResult when it passes
CustomLogicError(filtersConfig) ==
  IF filtersConfig.logic # "custom" THEN NoResult
  ELSE IF Trim(filtersConfig.expression) = <<>>
    THEN ErrorResult("Please enter a custom logic expression", "", <<>>)
  ELSE ValidationError(validateCustomLogic(filtersConfig.expression,
                                           LabelsOf(filtersConfig.filters)))

\* messages.filter(msg => messageMatchesFilters(...))
FilterMessages(messages, filtersConfig) ==
  SelectSeq(messages,
    LAMBDA msg : JsTruthy(messageMatchesFilters(msg.segments, filtersConfig,
                            msg.componentSeparator, msg.subcomponentSeparator)))

\* messageMatchesFilters hands the expression to evaluateCustomLogic
ReachesEvaluate(filtersConfig) ==
  /\ Len(filtersConfig.filters) > 1
  /\ filtersConfig.logic = "custom"
  /\ filtersConfig.expression # <<>>

\* `${f.label}: ${f.expression}` of every filter
RECURSIVE FilterLabels(_)
FilterLabels(filters) ==
  IF filters = <<>> THEN <<>>
  ELSE << Head(filters).label \o Chars(": ") \o Head(filters).expression >>
       \o FilterLabels(Tail(filters))

FilterDescription(filtersConfig) ==
  IF Len(filtersConfig.filters) = 1 THEN filtersConfig.filters[1].expression
  ELSE Join(FilterLabels(filtersConfig.filters), Chars(", "))
       \o Chars(" [Logic: ")
       \o (IF filtersConfig.logic = "custom" THEN filtersConfig.expression
           ELSE Chars(filtersConfig.logic))
       \o Chars("]")

\* the entries of one message, taken from its first matching segment only
ResultsOfMessageFirstOnly(msg, idx, parsed) ==
  LET matchingSegments ==
        SelectSeq(msg.segments, LAMBDA seg : seg.segmentId = parsed.segment)
  IN IF Len(matchingSegments) = 0
       THEN << [messageIndex |-> idx, value |-> <<>>] >>
       ELSE << [messageIndex |-> idx,
                value |-> extractValueFromSegment(matchingSegments[1], parsed.field,
                             parsed.component, parsed.subcomponent,
                             msg.componentSeparator, msg.subcomponentSeparator)] >>

\* the {messageIndex, value} entries of one message
ResultsOfMessage(msg, idx, parsed) ==
  LET matchingSegments ==
        SelectSeq(msg.segments, LAMBDA seg : seg.segmentId = parsed.segment)
  IN IF Len(matchingSegments) = 0
       THEN << [messageIndex |-> idx, value |-> <<>>] >>
       ELSE [i \in 1..Len(matchingSegments) |->
               [messageIndex |-> idx,
                value |-> extractValueFromSegment(matchingSegments[i], parsed.field,
                             parsed.component, parsed.subcomponent,
                             msg.componentSeparator, msg.subcomponentSeparator)]]

\* the forEach over filteredMessages, from the message of index idx on
RECURSIVE ResultsFrom(_, _, _)
ResultsFrom(filteredMessages, idx, parsed) ==
  IF idx >= Len(filteredMessages) THEN <<>>
  ELSE ResultsOfMessage(filteredMessages[idx + 1], idx, parsed)
       \o ResultsFrom(filteredMessages, idx + 1, parsed)

\* seg.segmentId + seg.fieldSeparator + seg.fields.join(seg.fieldSeparator)
SegmentText(seg) ==
  seg.segmentId \o <<seg.fieldSeparator>> \o Join(seg.fields, <<seg.fieldSeparator>>)

\* the export with one and the same terminator after segments and messages
FilteredHL7ContentOneTerminator(filteredMessages) ==
  Join([m \in 1..Len(filteredMessages) |->
          Join([k \in 1..Len(filteredMessages[m].segments) |->
                  SegmentText(filteredMessages[m].segments[k])], <<"\r">>)],
       <<"\r">>)

FilteredHL7Content(filteredMessages) ==
  Join([m \in 1..Len(filteredMessages) |->
          Join([k \in 1..Len(filteredMessages[m].segments) |->
                  SegmentText(filteredMessages[m].segments[k])], <<"\r">>)],
       <<"\r", "\r", "\n">>)

\* the return of lines 528-537, with the calls made to reach it
Extracted(filterOnly, parsed, totalMessages, filteredMessages, filtersConfig, hasValidFilters) ==
  [returned |->
     [results |-> IF ~filterOnly THEN ResultsFrom(filteredMessages, 0, parsed)
                  ELSE <<>>,
      totalMessages |-> totalMessages,
      filteredMessages |-> Len(filteredMessages),
      filterApplied |-> hasValidFilters,
      filterExpression |-> IF hasValidFilters THEN FilterDescription(filtersConfig)
                           ELSE <<>>,
      filtersConfig |-> IF hasValidFilters THEN filtersConfig ELSE NoFilters,
      filteredHL7Content |-> IF hasValidFilters
                               THEN FilteredHL7Content(filteredMessages) ELSE <<>>,
      filterOnly |-> filterOnly],
   calls |->
     [messageMatchesFilters |-> IF hasValidFilters THEN totalMessages ELSE 0,
      evaluateCustomLogic |-> IF hasValidFilters /\ ReachesEvaluate(filtersConfig)
                                THEN totalMessages ELSE 0]]

\* the block of lines 431-477, entered with a filter in filtersConfig
WithFilters(filterOnly, parsed, messages, filtersConfig, invalidFilters, customError) ==
  IF Len(invalidFilters) > 0
    THEN [returned |-> ErrorResult("Invalid filter format", "", invalidFilters),
          calls |-> NoCalls]
  ELSE IF HasError(customError)
    THEN [returned |-> customError, calls |-> NoCalls]
  ELSE Extracted(filterOnly, parsed, Len(messages),
                 FilterMessages(messages, filtersConfig), filtersConfig, TRUE)

\* the function from line 416 on
WithField(filterOnly, parsed, messages, filtersConfig) ==
  IF ~filterOnly /\ ~parsed.ok
    THEN [returned |-> ErrorResult("Invalid field reference", "", <<>>),
          calls |-> NoCalls]
  ELSE IF Len(filtersConfig.filters) > 0
    THEN WithFilters(filterOnly, parsed, messages, filtersConfig,
                     InvalidFilters(filtersConfig.filters),
                     CustomLogicError(filtersConfig))
  ELSE Extracted(filterOnly, parsed, Len(messages), messages, filtersConfig, FALSE)

\* what extractFieldValues returns and the calls it made on the way
ExtractionRun(content, fieldRef, filtersConfig) ==
  WithField(Trim(fieldRef) = <<>>,
            IF Trim(fieldRef) = <<>> THEN Null ELSE parseFieldReference(Str(fieldRef)),
            parseMessagesForFiltering(content), filtersConfig)

extractFieldValues(content, fieldRef, filtersConfig) ==
  ExtractionRun(content, fieldRef, filtersConfig).returned

(***************************************************************************)
(* generateStatistics                                                      *)
(***************************************************************************)
S_empty == Chars("(empty)")

\* numerals of equal length compared digit by digit
RECURSIVE DigitsLess(_, _)
DigitsLess(a, b) ==
  IF a = <<>> THEN FALSE
  ELSE IF Head(a) # Head(b) THEN DigitVal(Head(a)) < DigitVal(Head(b))
  ELSE DigitsLess(Tail(a), Tail(b))

\* the number of numeral a is below that of numeral b (no leading zeros)
NumeralLess(a, b) ==
  Len(a) < Len(b) \/ (Len(a) = Len(b) /\ DigitsLess(a, b))

\* a property name that is an array index: such keys come first, in
\* ascending order, when the properties of an object are listed
IsArrayIndex(key) ==
  /\ key # <<>>
  /\ \A i \in 1..Len(key) : IsDigit(key[i])
  /\ (Len(key) = 1 \/ key[1] # "0")
  /\ ~NumeralLess(Chars("4294967294"), key)

\* the count that is not a number: what ++ leaves of a value that is no number
NaN == -1

\* the function-valued properties every object literal inherits from
\* Object.prototype: valueCounts[key] finds them before the key was ever stored
InheritedKeys ==
  { Chars("constructor"), Chars("toString"), Chars("valueOf"),
    Chars("toLocaleString"), Chars("hasOwnProperty"), Chars("isPrototypeOf"),
    Chars("propertyIsEnumerable") }

\* valueCounts[displayValue] is falsy: undefined, 0 or NaN
CountIsFalsy(valueCounts, displayValue) ==
  IF HasKey(valueCounts, displayValue)
    THEN Get(valueCounts, displayValue) \in {0, NaN}
    ELSE displayValue \notin InheritedKeys

\* if (!valueCounts[displayValue]) valueCounts[displayValue] = 0;
\* valueCounts[displayValue]++: the count stored for displayValue afterwards
Incremented(valueCounts, displayValue) ==
  IF CountIsFalsy(valueCounts, displayValue) THEN 1
  ELSE IF HasKey(valueCounts, displayValue)
    THEN Get(valueCounts, displayValue) + 1
    ELSE NaN

\* the for loop over results that fills valueCounts
RECURSIVE CountValues(_, _, _)
CountValues(valueCounts, results, i) ==
  IF i > Len(results) THEN valueCounts
  ELSE LET value == Trim(results[i].value)
           displayValue == IF value # <<>> THEN value ELSE S_empty
       IN CountValues(Put(valueCounts, displayValue,
                          Incremented(valueCounts, displayValue)),
                      results, i + 1)

\* entry x goes before entry y: by the number of the key, or by the count
\* (b[1] - a[1] is NaN when either count is, and sort takes NaN for equal)
Before(x, y, by) ==
  IF by = "key" THEN NumeralLess(x.key, y.key)
  ELSE x.value # NaN /\ y.value # NaN /\ x.value > y.value

\* entries put in that order, equal ones kept in their order
RECURSIVE InsertEntry(_, _, _)
InsertEntry(sorted, x, by) ==
  IF sorted = <<>> THEN <<x>>
  ELSE IF Before(x, Head(sorted), by) THEN <<x>> \o sorted
  ELSE <<Head(sorted)>> \o InsertEntry(Tail(sorted), x, by)

RECURSIVE SortEntries(_, _)
SortEntries(entries, by) ==
  IF entries = <<>> THEN <<>>
  ELSE InsertEntry(SortEntries(SubSeq(entries, 1, Len(entries) - 1), by),
                   entries[Len(entries)], by)

\* Object.entries(valueCounts): array-index keys in ascending order, then the
\* other keys in the order of their insertion
ObjectEntries(obj) ==
  SortEntries(SelectSeq(obj, LAMBDA e : IsArrayIndex(e.key)), "key")
  \o SelectSeq(obj, LAMBDA e : ~IsArrayIndex(e.key))

\* .sort((a, b) => b[1] - a[1]).map(([value, count]) => ({ value, count }))
SortedValues(valueCounts) ==
  LET sorted == SortEntries(ObjectEntries(valueCounts), "count")
  IN [i \in 1..Len(sorted) |-> [value |-> sorted[i].key, count |-> sorted[i].value]]

\* the messages with an extraction that is not empty, blanks counted as content
MessageHasValueUntrimmed(results) ==
  { results[i].messageIndex : i \in { k \in 1..Len(results) : results[k].value # <<>> } }

\* the set messageHasValue after the loop over the results
MessageHasValue(results) ==
  { results[i].messageIndex : i \in { k \in 1..Len(results) :
                                        Trim(results[k].value) # <<>> } }

\* the set messageHasNoValue after the loop over the results
MessageHasNoValue(results) ==
  { results[i].messageIndex : i \in { k \in 1..Len(results) :
                                        Trim(results[k].value) = <<>> } }

\* the messages without value, a message with an empty and a full
\* extraction counted among them too
MessagesWithoutValueCountingBoth(results, messageCount) ==
  LET messagesWithSegment == MessageHasValue(results) \cup MessageHasNoValue(results)
  IN Cardinality(MessageHasNoValue(results))
     + (messageCount - Cardinality(messagesWithSegment))

\* messagesWithOnlyEmpty + messagesWithoutSegment
MessagesWithoutValue(results, messageCount) ==
  LET messagesWithOnlyEmpty ==
        Cardinality(MessageHasNoValue(results) \ MessageHasValue(results))
      messagesWithSegment == MessageHasValue(results) \cup MessageHasNoValue(results)
      messagesWithoutSegment == messageCount - Cardinality(messagesWithSegment)
  IN messagesWithOnlyEmpty + messagesWithoutSegment

generateStatistics(extractionResult) ==
  IF HasError(extractionResult) THEN [error |-> extractionResult.error]
  ELSE
    LET results == extractionResult.results
        filterApplied == extractionResult.filterApplied
        messageCount == IF filterApplied THEN extractionResult.filteredMessages
                        ELSE extractionResult.totalMessages
        messageHasValue == MessageHasValue(results)
    IN IF extractionResult.filterOnly
         THEN [totalMessages |-> extractionResult.totalMessages,
               filteredMessages |-> IF filterApplied
                                      THEN extractionResult.filteredMessages ELSE Null,
               filterApplied |-> filterApplied,
               filterExpression |-> extractionResult.filterExpression,
               filterOnly |-> TRUE,
               filteredHL7Content |-> extractionResult.filteredHL7Content]
         ELSE [totalMessages |-> extractionResult.totalMessages,
               filteredMessages |-> IF filterApplied
                                      THEN extractionResult.filteredMessages ELSE Null,
               filterApplied |-> filterApplied,
               filterExpression |-> extractionResult.filterExpression,
               messagesWithValue |-> Cardinality(messageHasValue),
               messagesWithoutValue |-> MessagesWithoutValue(results, messageCount),
               totalOccurrences |-> Len(results),
               distinctValues |-> SortedValues(CountValues(<<>>, results, 1)),
               segmentNotFound |-> (Len(results) = 0 /\ ~filterApplied),
               filteredHL7Content |-> extractionResult.filteredHL7Content]

\* createPieChart: at most maxSlices slices
maxSlices == 15

S_Other == Chars("(Other)")

\* otherValues.reduce((sum, item) => sum + item.count, 0)
RECURSIVE SumCounts(_)
SumCounts(items) ==
  IF items = <<>> THEN 0
  ELSE LET rest == SumCounts(Tail(items))
       IN IF Head(items).count = NaN \/ rest = NaN THEN NaN
          ELSE Head(items).count + rest

\* the chartData that createPieChart draws, none for no distinct value
createPieChart(statistics) ==
  LET distinct == statistics.distinctValues
  IN IF Len(distinct) = 0 THEN NoSlices
     ELSE IF Len(distinct) > maxSlices
       THEN SubSeq(distinct, 1, maxSlices - 1)
            \o << [value |-> S_Other,
                   count |-> SumCounts(SubSeq(distinct, maxSlices, Len(distinct)))] >>
     ELSE distinct

\* what renderStatistics puts into the container for the statistics given
renderStatistics(statistics) ==
  IF "error" \in DOMAIN statistics THEN "stats-error"
  ELSE IF "filterOnly" \in DOMAIN statistics THEN "filter only view"
  ELSE IF statistics.segmentNotFound THEN "no occurrences found"
  ELSE "statistics"

(***************************************************************************)
(* The address parser on its own: Init draws the argument, the action      *)
(* applies parseFieldReference to it.                                      *)
(***************************************************************************)
SegTokens == { <<"P","I","D">>, <<"p","v","1">>, <<>> }
NumTokens == { <<"5">>, <<"1","2">>, <<"0">>, <<"-","1">>, <<"5","x">>,
               <<"x">>, <<>> }
Pads == { <<>>, <<" ">> }

RECURSIVE NumTails(_)
\* the sequences of at most n numeric tokens
NumTails(n) ==
  IF n = 0 THEN { <<>> }
  ELSE LET shorter == NumTails(n - 1)
       IN shorter \cup { <<t>> \o r : t \in NumTokens,
                                      r \in { q \in shorter : Len(q) = n - 1 } }

FieldRefInputs ==
  { Str(p \o Join(<<s>> \o tail, <<".">>) \o p) :
      p \in Pads, s \in SegTokens, tail \in NumTails(MaxParts - 1) }
  \cup { Undefined, NumberValue }

InitAddr ==
  /\ pc = "ready"
  /\ refArgument \in FieldRefInputs
  /\ parsedRef = Null
  /\ FilterIdle
  /\ SingleIdle
  /\ LogicIdle
  /\ MatchIdle
  /\ RunIdle
  /\ PanelIdle

ParseFieldReference ==
  /\ pc = "ready"
  /\ parsedRef' = parseFieldReference(refArgument)
  /\ pc' = "done"
  /\ UNCHANGED <<refArgument, filterVars, singleVars, logicVars, matchVars, runVars, panelVars>>

NextAddr == ParseFieldReference

SpecAddr == InitAddr /\ [][NextAddr]_vars

(***************************************************************************)
(* The address grammar, as section 4.3 of the specification states it:     *)
(* SEGMENT "." FIELD ["." COMPONENT ["." SUBCOMPONENT]], the numeric parts *)
(* being positive integers written in digits only.                         *)
(***************************************************************************)
AllDigits(s) == s # <<>> /\ \A i \in 1..Len(s) : IsDigit(s[i])

IsPositiveNumeral(s) == AllDigits(s) /\ DigitsValue(s) >= 1

ConformsToAddressGrammar(s) ==
  LET parts == SplitChar(Trim(s), ".")
  IN /\ Len(parts) >= 2
     /\ Len(parts) <= 4
     /\ parts[1] # <<>>
     /\ \A i \in 2..Len(parts) : IsPositiveNumeral(parts[i])

\* C1: parseFieldReference returns null for every argument that is no string or
\* that violates the address grammar (a numeric part that is not purely
\* digits, a zero or negative number, fewer than 2 or more than 4 parts, an
\* empty segment token): it accepts only strings that conform to the grammar.
C1_RejectsWhatViolatesGrammar ==
  pc = "done" =>
    ((refArgument.type # "string" \/ ~ConformsToAddressGrammar(refArgument.str))
       => parsedRef = Null)

(***************************************************************************)
(* The filter grammar on its own: Init writes an expression as an address, *)
(* blanks, an operator word, blanks and a value; the action parses it.     *)
(***************************************************************************)
FilterAddrs == { <<"P","I","D",".","5">>, <<"p","v","1",".","2",".","1">>,
                 <<"P","I","D",".","5","x">>, <<"P","I","D">>,
                 <<"P","I","D",".","0">>, <<".","5">> }
WrittenOps == { <<"=">>, <<"!","=">>, S_contains, S_notcontains, S_exists,
                S_notexists, <<"C","o","n","t","a","i","n","s">>,
                <<"E","X","I","S","T","S">>, <<"!","E","x","i","s","t","s">>,
                <<"~">> }
FilterValues == { <<>>, <<"E">>, <<"e"," ","r">>, <<"!","x">>,
                  <<"a","=","b">>, S_exists }

Blanks(n) == [i \in 1..n |-> " "]

FilterShapes ==
  [addr : FilterAddrs, pre : 0..MaxGap, op : WrittenOps, post : 0..MaxGap,
   value : FilterValues]

WriteFilter(sh) ==
  sh.addr \o Blanks(sh.pre) \o sh.op \o Blanks(sh.post) \o sh.value

InitFilter ==
  /\ pc = "ready"
  /\ filterShape \in FilterShapes
  /\ filterExpr = Str(WriteFilter(filterShape))
  /\ parsedFilter = Null
  /\ AddrIdle
  /\ SingleIdle
  /\ LogicIdle
  /\ MatchIdle
  /\ RunIdle
  /\ PanelIdle

ParseFilterExpression ==
  /\ pc = "ready"
  /\ parsedFilter' = parseFilterExpression(filterExpr)
  /\ pc' = "done"
  /\ UNCHANGED <<filterShape, filterExpr, addrVars, singleVars, logicVars,
                 matchVars, runVars, panelVars>>

NextFilter == ParseFilterExpression

SpecFilter == InitFilter /\ [][NextFilter]_vars

\* an address of the grammar whose segment token is a three-character
\* alphanumeric segment kind
ValidAddress(a) ==
  /\ ConformsToAddressGrammar(a)
  /\ LET seg == SplitChar(Trim(a), ".")[1]
     IN Len(seg) = 3 /\ \A i \in 1..3 : IsWordChar(seg[i])

\* a value in which no operator of the filter language is written
OperatorFree(val) ==
  /\ ~Includes(val, <<"=">>)
  /\ ~Includes(ToLowerCase(val), S_contains)
  /\ ~Includes(ToLowerCase(val), S_exists)

\* the operator an operator word denotes, whatever its letter case
OperatorOf(word) ==
  CHOOSE op \in {"!=", "=", "!contains", "contains", "!exists", "exists"} :
     OpText(op) = ToLowerCase(word)

IsBinaryWord(word) ==
  ToLowerCase(word) \in {<<"!","=">>, <<"=">>, S_notcontains, S_contains}
IsUnaryWord(word) == ToLowerCase(word) \in {S_notexists, S_exists}

\* C2: for a valid address A and an operator-free value V (possibly empty),
\* "A op V" with op one of !=, =, !contains, contains yields exactly that
\* operator (!= is not read as =, !contains not as contains) with fieldRef A
\* and value V; "A exists" and "A !exists", in any letter case and with
\* trailing blanks, yield the unary operator with an empty value.
C2_OperatorPriority ==
  (pc = "done" /\ ValidAddress(filterShape.addr)
               /\ OperatorFree(filterShape.value)) =>
    /\ IsBinaryWord(filterShape.op) =>
         parsedFilter = [ok |-> TRUE, fieldRef |-> filterShape.addr,
                         operator |-> OperatorOf(filterShape.op),
                         value |-> filterShape.value]
    /\ (IsUnaryWord(filterShape.op) /\ filterShape.pre >= 1
          /\ filterShape.value = <<>>) =>
         parsedFilter = [ok |-> TRUE, fieldRef |-> filterShape.addr,
                         operator |-> OperatorOf(filterShape.op),
                         value |-> <<>>]

\* "A != V" was parsed as != although a bare = occurs in it, with an empty V
C2_Witness ==
  /\ pc = "done"
  /\ ValidAddress(filterShape.addr)
  /\ filterShape.op = <<"!","=">>
  /\ filterShape.value = <<>>
  /\ parsedFilter.ok
  /\ parsedFilter.operator = "!="
  /\ parsedFilter.value = <<>>

\* C3: parseFilterExpression returns a condition only when the text left of
\* the recognised operator is a valid address of the grammar, and returns
\* null whenever the left-hand token written is not one.
C3_LeftHandIsAddress ==
  pc = "done" =>
    /\ parsedFilter.ok => ConformsToAddressGrammar(parsedFilter.fieldRef)
    /\ ~ConformsToAddressGrammar(filterShape.addr) => parsedFilter = Null

(***************************************************************************)
(* One condition against one message: Init segments a text of a header     *)
(* line and at most MaxLines further lines and parses a condition; the     *)
(* action applies messageMatchesSingleFilter.                              *)
(***************************************************************************)
HeaderLine == Chars("MSH|^~\\&|App")
BodyLines == { Chars("PID|1| doe^john&jr|X"), Chars("PID|2|SMITH"),
               Chars("PID|3|  |"), Chars("PV1|E"), Chars("PV1||doe"),
               Chars("ZZZ|doe") }

RECURSIVE LineSeqs(_)
\* the sequences of at most n body lines
LineSeqs(n) ==
  IF n = 0 THEN { <<>> }
  ELSE LET shorter == LineSeqs(n - 1)
       IN shorter \cup { Append(r, l) : l \in BodyLines,
                                        r \in { q \in shorter : Len(q) = n - 1 } }

MessageText(lines) == Join(<<HeaderLine>> \o lines, <<"\r">>)

MessagesUnderTest ==
  { parseMessagesForFiltering(MessageText(lines))[1] : lines \in LineSeqs(MaxLines) }

ConditionAddrs == { Chars("PID.2"), Chars("pid.2.1"), Chars("PID.2.1.2"),
                    Chars("PV1.1"), Chars("PID.9"), Chars("MSH.1"),
                    Chars("MSH.3"), Chars("OBX.5") }
ConditionWords == { <<"=">>, <<"!","=">>, S_contains, S_notcontains }
ConditionValues == { <<>>, Chars("doe"), Chars("DOE"), Chars("o"),
                     Chars("Smith"), Chars("e") }

ConditionsUnderTest ==
  { parseFilterExpression(Str(a \o <<" ">> \o w \o <<" ">> \o v)) :
      a \in ConditionAddrs, w \in ConditionWords, v \in ConditionValues }
  \cup { parseFilterExpression(Str(a \o <<" ">> \o w)) :
           a \in ConditionAddrs, w \in {S_exists, S_notexists} }

InitSingle ==
  /\ pc = "ready"
  /\ message \in MessagesUnderTest
  /\ condition \in ConditionsUnderTest
  /\ singleResult = FALSE
  /\ AddrIdle
  /\ FilterIdle
  /\ LogicIdle
  /\ MatchIdle
  /\ RunIdle
  /\ PanelIdle

MessageMatchesSingleFilter ==
  /\ pc = "ready"
  /\ singleResult' = messageMatchesSingleFilter(message.segments, condition,
                        message.componentSeparator, message.subcomponentSeparator)
  /\ pc' = "done"
  /\ UNCHANGED <<message, condition, addrVars, filterVars, logicVars,
                 matchVars, runVars, panelVars>>

NextSingle == MessageMatchesSingleFilter

SpecSingle == InitSingle /\ [][NextSingle]_vars

\* the address of the condition
ConditionAddress == parseFieldReference(Str(condition.fieldRef))

\* the positions of the message's segments of the addressed kind
AddressedSegments ==
  { i \in 1..Len(message.segments) :
      message.segments[i].segmentId = ConditionAddress.segment }

\* the value resolved from the first segment of the addressed kind
FirstResolvedValue ==
  LET first == CHOOSE i \in AddressedSegments : \A j \in AddressedSegments : i <= j
  IN extractValueFromSegment(message.segments[first], ConditionAddress.field,
        ConditionAddress.component, ConditionAddress.subcomponent,
        message.componentSeparator, message.subcomponentSeparator)

\* the table of the six operators on a value and a comparand
Compares(op, value, comparand) ==
  CASE op = "=" -> value = comparand
    [] op = "!=" -> value # comparand
    [] op = "contains" -> Includes(value, comparand)
    [] op = "!contains" -> ~Includes(value, comparand)
    [] op = "exists" -> value # <<>>
    [] op = "!exists" -> value = <<>>

\* C4 as stated: the result is the operator's table on the value resolved
\* from the first segment of the addressed kind and the comparand, both
\* upper-cased (and nothing else done to them).
C4_UpperCasedOnly ==
  (pc = "done" /\ AddressedSegments # {}) =>
    singleResult = Compares(condition.operator,
                            ToUpperCase(FirstResolvedValue),
                            ToUpperCase(condition.value))

\* C4 (amended): the result is the operator's table on the value resolved
\* from the first segment of the addressed kind and the comparand, both
\* trimmed of surrounding white space and upper-cased; later segments of the
\* kind have no part in it.
C4_FirstSegmentTrimmedUpperCased ==
  (pc = "done" /\ AddressedSegments # {}) =>
    singleResult = Compares(condition.operator,
                            ToUpperCase(Trim(FirstResolvedValue)),
                            ToUpperCase(Trim(condition.value)))

\* "PID.2 = doe" holds on a message whose first PID carries " doe^john&jr" in
\* another letter case only through its first component, and whose second
\* PID carries another value
C4_Witness ==
  /\ pc = "done"
  /\ Cardinality(AddressedSegments) >= 2
  /\ condition.operator = "="
  /\ condition.value = Chars("DOE")
  /\ FirstResolvedValue = Chars(" doe")
  /\ singleResult = TRUE
  /\ \E i \in AddressedSegments :
        extractValueFromSegment(message.segments[i], ConditionAddress.field,
           ConditionAddress.component, ConditionAddress.subcomponent,
           message.componentSeparator, message.subcomponentSeparator)
          = Chars("SMITH")

\* C5: when the message has no segment of the addressed kind, the result is
\* false for =, contains and exists and true for !=, !contains and !exists,
\* whatever the comparand.
C5_MissingSegment ==
  (pc = "done" /\ AddressedSegments = {}) =>
    /\ condition.operator \in {"=", "contains", "exists"} => singleResult = FALSE
    /\ condition.operator \in {"!=", "!contains", "!exists"} => singleResult = TRUE

\* a !exists condition on OBX.5 matched a message without any OBX segment
C5_Witness ==
  /\ pc = "done"
  /\ AddressedSegments = {}
  /\ ConditionAddress.segment = Chars("OBX")
  /\ condition.operator = "!exists"
  /\ singleResult = TRUE

(***************************************************************************)
(* The validator on its own: Init writes an expression as at most          *)
(* MaxTokens tokens and declares one or two labels; the action validates.  *)
(***************************************************************************)
LogicTokens == { Chars("F1"), Chars("f2"), Chars("F9"), Chars("X"),
                 Chars("AND"), Chars("or"), Chars("NOT"), <<"(">>, <<")">> }

RECURSIVE TokenSeqs(_)
\* the sequences of at most n tokens
TokenSeqs(n) ==
  IF n = 0 THEN { <<>> }
  ELSE LET shorter == TokenSeqs(n - 1)
       IN shorter \cup { Append(r, t) : t \in LogicTokens,
                                        r \in { q \in shorter : Len(q) = n - 1 } }

IsParen(tok) == tok \in { <<"(">>, <<")">> }

\* the tokens written one after the other: a blank between two neighbours,
\* none next to a parenthesis in the tight style
RECURSIVE WriteTokens(_, _)
WriteTokens(toks, style) ==
  IF toks = <<>> THEN <<>>
  ELSE IF Len(toks) = 1 THEN toks[1]
  ELSE toks[1]
       \o (IF style = "tight" /\ (IsParen(toks[1]) \/ IsParen(toks[2]))
             THEN <<>> ELSE <<" ">>)
       \o WriteTokens(Tail(toks), style)

\* the padded style puts a blank before and after the whole
WriteExpression(w) ==
  IF w.style = "padded" THEN <<" ">> \o WriteTokens(w.tokens, w.style) \o <<" ">>
  ELSE WriteTokens(w.tokens, w.style)

DeclaredLabelLists == { << Chars("F1") >>, << Chars("F1"), Chars("F2") >> }

InitLogic ==
  /\ pc = "ready"
  /\ written \in [tokens : TokenSeqs(MaxTokens), style : {"padded", "tight"}]
  /\ customExpr = WriteExpression(written)
  /\ declaredLabels \in DeclaredLabelLists
  /\ validation = [valid |-> FALSE, error |-> "", unknown |-> <<>>]
  /\ AddrIdle
  /\ FilterIdle
  /\ SingleIdle
  /\ MatchIdle
  /\ RunIdle
  /\ PanelIdle

ValidateCustomLogic ==
  /\ pc = "ready"
  /\ validation' = validateCustomLogic(customExpr, declaredLabels)
  /\ pc' = "done"
  /\ UNCHANGED <<written, customExpr, declaredLabels, addrVars, filterVars,
                 singleVars, matchVars, runVars, panelVars>>

NextLogic == ValidateCustomLogic

SpecLogic == InitLogic /\ [][NextLogic]_vars

\* the tokens of the expression, read without letter case
IsBinaryToken(tok) == ToUpperCase(tok) \in { Chars("AND"), Chars("OR") }
IsNotToken(tok) == ToUpperCase(tok) = Chars("NOT")
IsOperandToken(tok) == ~IsBinaryToken(tok) /\ ~IsNotToken(tok) /\ ~IsParen(tok)
IsDeclared(tok) ==
  \E i \in 1..Len(declaredLabels) : ToUpperCase(declaredLabels[i]) = ToUpperCase(tok)

\* the written tokens without the parentheses
RECURSIVE WithoutParens(_)
WithoutParens(toks) ==
  IF toks = <<>> THEN <<>>
  ELSE IF IsParen(Head(toks)) THEN WithoutParens(Tail(toks))
  ELSE <<Head(toks)>> \o WithoutParens(Tail(toks))

\* the parentheses of the tokens are balanced
RECURSIVE Balanced(_, _)
Balanced(toks, depth) ==
  IF toks = <<>> THEN depth = 0
  ELSE IF Head(toks) = <<"(">> THEN Balanced(Tail(toks), depth + 1)
  ELSE IF Head(toks) = <<")">> THEN depth > 0 /\ Balanced(Tail(toks), depth - 1)
  ELSE Balanced(Tail(toks), depth)

\* the faults that section 4.6 lists, read off the written tokens
ListedFault ==
  LET toks == written.tokens
      flat == WithoutParens(toks)
  IN \/ toks = <<>>
     \/ ~Balanced(toks, 0)
     \/ flat # <<>> /\ IsBinaryToken(flat[1])
     \/ flat # <<>> /\ (IsBinaryToken(flat[Len(flat)]) \/ IsNotToken(flat[Len(flat)]))
     \/ \E i \in 1..(Len(flat) - 1) :
           \/ IsBinaryToken(flat[i]) /\ IsBinaryToken(flat[i + 1])
           \/ IsNotToken(flat[i]) /\ IsBinaryToken(flat[i + 1])
           \/ IsOperandToken(flat[i]) /\ IsOperandToken(flat[i + 1])

\* C8: validateCustomLogic returns valid = false with a reason for every
\* expression that is empty, has unbalanced parentheses, starts with AND/OR,
\* ends with AND/OR/NOT, has two consecutive AND/OR, has NOT followed by
\* AND/OR, or has two labels next to each other without an operator.
C8_ListedFaultsRejected ==
  (pc = "done" /\ ListedFault) =>
    (validation.valid = FALSE /\ validation.error # "")

\* a balanced expression of declared labels whose only fault is two
\* consecutive operators was rejected for that
C8_Witness ==
  /\ pc = "done"
  /\ written.tokens = << Chars("F1"), Chars("AND"), Chars("or"), Chars("f2") >>
  /\ Len(declaredLabels) = 2
  /\ validation.valid = FALSE
  /\ validation.error = "Cannot have consecutive AND/OR operators"

\* C9: validateCustomLogic accepts an expression only if every operand in it
\* is a declared label: an expression that references any other operand fails.
C9_UndeclaredOperandRejected ==
  (pc = "done" /\ validation.valid) =>
    \A i \in 1..Len(written.tokens) :
       IsOperandToken(written.tokens[i]) => IsDeclared(written.tokens[i])

\* C9, its example: "F1 AND F9" with only F1 declared fails naming F9.
C9_ExampleNamesF9 ==
  (/\ pc = "done"
   /\ written.tokens = << Chars("F1"), Chars("AND"), Chars("F9") >>
   /\ declaredLabels = << Chars("F1") >>) =>
    (/\ validation.valid = FALSE
     /\ validation.error = "Unknown filter label(s)"
     /\ validation.unknown = << Chars("F9") >>)

(***************************************************************************)
(* The filter rows of the page and getFiltersConfig (server.js).           *)
(***************************************************************************)
\* `F${filterCounter}`, the label addFilterRow gives a row
LabelOf(number) ==
  IF number < 10 THEN << "F", DigitChars[number + 1] >>
  ELSE << "F", DigitChars[(number \div 10) + 1],
          DigitChars[(number % 10) + 1] >>

\* the rows whose input is not blank, as {label, expression}
RECURSIVE FiltersOfRows(_)
FiltersOfRows(filterRows) ==
  IF filterRows = <<>> THEN <<>>
  ELSE LET value == Trim(Head(filterRows).input)
       IN (IF value # <<>>
             THEN << [label |-> Head(filterRows).label, expression |-> value] >>
             ELSE <<>>) \o FiltersOfRows(Tail(filterRows))

getFiltersConfig(filterRows, logicMode, customLogicInput) ==
  LET filters == FiltersOfRows(filterRows)
  IN IF Len(filters) = 0 THEN NoFilters
     ELSE IF Len(filters) = 1
       THEN [filters |-> filters, logic |-> "single", expression |-> <<>>]
     ELSE [filters |-> filters, logic |-> logicMode,
           expression |-> IF logicMode = "custom" THEN Trim(customLogicInput)
                          ELSE <<>>]

(***************************************************************************)
(* Several conditions against one message, combined by AND, OR or alone:   *)
(* Init fills at most MaxFilters rows and picks the mode; the action       *)
(* applies messageMatchesFilters.                                          *)
(***************************************************************************)
MatchLines ==
  { <<>>,
    << Chars("PID|2|SMITH"), Chars("PV1|E") >>,
    << Chars("PID|1|doe^john") >>,
    << Chars("PID|1|doe^john"), Chars("PV1|E") >>,
    << Chars("PID|2|SMITH") >> }

MatchMessages ==
  { parseMessagesForFiltering(MessageText(lines))[1] : lines \in MatchLines }

RowInputs == { Chars("PID.2 = smith"), Chars("PV1.1 exists"),
               Chars("PID.2 !contains DOE") }

RECURSIVE InputSeqs(_)
\* the sequences of at most n row inputs
InputSeqs(n) ==
  IF n = 0 THEN { <<>> }
  ELSE LET shorter == InputSeqs(n - 1)
       IN shorter \cup { Append(r, t) : t \in RowInputs,
                                        r \in { q \in shorter : Len(q) = n - 1 } }

\* the rows added one after the other, with the inputs typed into them
RowsOf(inputs) ==
  [i \in 1..Len(inputs) |-> [label |-> LabelOf(i), input |-> inputs[i]]]

MatchConfigs ==
  { getFiltersConfig(RowsOf(inputs), logicMode, <<>>) :
      inputs \in InputSeqs(MaxFilters), logicMode \in {"AND", "OR"} }
  \ { NoFilters }

InitMatch ==
  /\ pc = "ready"
  /\ message \in MatchMessages
  /\ condition = Null
  /\ singleResult = FALSE
  /\ chosenFilters \in MatchConfigs
  /\ logicTree = NoTree
  /\ matchResult = "undefined"
  /\ AddrIdle
  /\ FilterIdle
  /\ LogicIdle
  /\ RunIdle
  /\ PanelIdle

MessageMatchesFilters ==
  /\ pc = "ready"
  /\ matchResult' = messageMatchesFilters(message.segments, chosenFilters,
                       message.componentSeparator, message.subcomponentSeparator)
  /\ pc' = "done"
  /\ UNCHANGED <<chosenFilters, logicTree, addrVars, filterVars, singleVars,
                 logicVars, runVars, panelVars>>

NextMatch == MessageMatchesFilters

SpecMatch == InitMatch /\ [][NextMatch]_vars

\* the i-th condition of chosenFilters evaluated on its own
IndividualResult(i) ==
  messageMatchesSingleFilter(message.segments,
     parseFilterExpression(Str(chosenFilters.filters[i].expression)),
     message.componentSeparator, message.subcomponentSeparator)

Conditions == 1..Len(chosenFilters.filters)

\* C6: in mode AND messageMatchesFilters returns the conjunction of the
\* individually evaluated conditions, in mode OR their disjunction, for every
\* list of 2 to 5 conditions in every order; in mode single it returns the
\* lone condition's result.
C6_ConjunctionDisjunctionSingle ==
  pc = "done" =>
    /\ chosenFilters.logic = "AND" =>
         matchResult = JsBool(\A i \in Conditions : IndividualResult(i))
    /\ chosenFilters.logic = "OR" =>
         matchResult = JsBool(\E i \in Conditions : IndividualResult(i))
    /\ chosenFilters.logic = "single" =>
         matchResult = JsBool(IndividualResult(1))

\* five conditions combined by OR, the first and the last of them false and
\* one in between true, included the message
C6_Witness ==
  /\ pc = "done"
  /\ chosenFilters.logic = "OR"
  /\ Len(chosenFilters.filters) = 5
  /\ ~IndividualResult(1)
  /\ ~IndividualResult(5)
  /\ \E i \in Conditions : IndividualResult(i)
  /\ matchResult = "true"

(***************************************************************************)
(* Three conditions F1, F2 and F10 combined by a custom expression: Init   *)
(* writes the expression from a tree of at most MaxOps operators, in       *)
(* upper or lower case, its words separated by a blank or by a tab; the    *)
(* action applies messageMatchesFilters.                                   *)
(***************************************************************************)
CustomLabels == << LabelOf(1), LabelOf(2), LabelOf(10) >>

RECURSIVE TreesOf(_)
\* the trees of exactly n operators
TreesOf(n) ==
  IF n = 0 THEN { << "label", CustomLabels[i] >> : i \in 1..Len(CustomLabels) }
  ELSE { << "NOT", e >> : e \in TreesOf(n - 1) }
       \cup UNION { { << op, l, r >> : op \in {"AND", "OR"},
                                       l \in TreesOf(k), r \in TreesOf(n - 1 - k) } :
                    k \in 0..(n - 1) }

Trees == UNION { TreesOf(n) : n \in 0..MaxOps }

Word(w, style) == IF style.letters = "lower" THEN ToLowerCase(w) ELSE w

RECURSIVE Render(_, _)
\* the text of a tree: an operand that is not in bare is parenthesised
Render(e, style) ==
  LET Group(x, bare) == IF x[1] \in bare THEN Render(x, style)
                        ELSE <<"(">> \o Render(x, style) \o <<")">>
  IN IF e[1] = "label" THEN Word(e[2], style)
     ELSE IF e[1] = "NOT"
       THEN Word(Chars("NOT"), style) \o <<style.gap>> \o Group(e[2], {"label", "NOT"})
     ELSE Group(e[2], {"label"}) \o <<style.gap>> \o Word(Chars(e[1]), style)
          \o <<style.gap>> \o Group(e[3], {"label", "NOT"})

CustomInputs == { Chars("PID.2 = smith"), Chars("PID.2 = doe") }

CustomRows(inputs) ==
  [i \in 1..Len(CustomLabels) |-> [label |-> CustomLabels[i], input |-> inputs[i]]]

InitCustom ==
  /\ pc = "ready"
  /\ message = parseMessagesForFiltering(MessageText(<< Chars("PID|2|SMITH") >>))[1]
  /\ condition = Null
  /\ singleResult = FALSE
  /\ logicTree \in { [ast |-> e, letters |-> l, gap |-> g] :
                       e \in Trees, l \in {"upper", "lower"}, g \in {" ", "\t"} }
  /\ \E inputs \in [1..Len(CustomLabels) -> CustomInputs] :
        chosenFilters = getFiltersConfig(CustomRows(inputs), "custom",
                                         Render(logicTree.ast, logicTree))
  /\ matchResult = "undefined"
  /\ AddrIdle
  /\ FilterIdle
  /\ LogicIdle
  /\ RunIdle
  /\ PanelIdle

NextCustom == MessageMatchesFilters

SpecCustom == InitCustom /\ [][NextCustom]_vars

\* the declared labels of chosenFilters
AvailableLabels ==
  [i \in Conditions |-> chosenFilters.filters[i].label]

\* the result of the condition that carries the label
ResultOf(label) ==
  IndividualResult(CHOOSE i \in Conditions : chosenFilters.filters[i].label = label)

RECURSIVE TreeValue(_)
\* the boolean value of a tree with every label replaced by its result
TreeValue(e) ==
  CASE e[1] = "label" -> ResultOf(e[2])
    [] e[1] = "NOT" -> ~TreeValue(e[2])
    [] e[1] = "AND" -> TreeValue(e[2]) /\ TreeValue(e[3])
    [] e[1] = "OR" -> TreeValue(e[2]) \/ TreeValue(e[3])

PassedValidation ==
  validateCustomLogic(chosenFilters.expression, AvailableLabels).valid

\* C7: in mode custom, for an expression that passed validation, the message
\* is included iff the expression, with every label replaced by that
\* condition's result, is true.
C7_DecisionIsExpressionValue ==
  (pc = "done" /\ chosenFilters.logic = "custom" /\ PassedValidation) =>
    (JsTruthy(matchResult) <=> TreeValue(logicTree.ast))

\* C7, for the expressions whose words are separated by blanks: the decision
\* is the value of the expression, whatever the letter case of its words.
C7_BlankSeparated ==
  (pc = "done" /\ chosenFilters.logic = "custom" /\ PassedValidation
     /\ logicTree.gap = " ") =>
    (JsTruthy(matchResult) <=> TreeValue(logicTree.ast))

\* C7, its examples: F1 AND NOT F2 includes the message iff F1 is true and
\* F2 is false; F1 is not substituted inside F10.
C7_Examples ==
  (pc = "done" /\ logicTree.gap = " ") =>
    /\ logicTree.ast = << "AND", <<"label", LabelOf(1)>>,
                          << "NOT", <<"label", LabelOf(2)>> >> >> =>
         (JsTruthy(matchResult) <=> (ResultOf(LabelOf(1)) /\ ~ResultOf(LabelOf(2))))
    /\ logicTree.ast = << "label", LabelOf(10) >> =>
         (JsTruthy(matchResult) <=> ResultOf(LabelOf(10)))

(***************************************************************************)
(* A run of the statistics, as runStatistics makes it for the Generate     *)
(* button: Init loads a text, types the field, fills at most MaxRows       *)
(* filter rows, some left blank, and picks the mode and the custom         *)
(* expression; extractFieldValues and generateStatistics follow.           *)
(***************************************************************************)
RunContents ==
  { Join(<< MessageText(<< Chars("PID|1|doe^john"), Chars("PV1|E") >>),
            MessageText(<< Chars("PID|2|SMITH"), Chars("PID|3| ") >>) >>, <<"\n">>),
    Join(<< MessageText(<< Chars("PID|1|SMITH"), Chars("PV1|E") >>),
            MessageText(<< Chars("PV1|I") >>),
            MessageText(<< Chars("PID|2|smith") >>) >>, <<"\r", "\n">>) }

RunFields == { <<>>, Chars("PID.2"), Chars("pid.2.1"), Chars("PID.x") }

\* what is typed into a filter row: an address, an operator word and a value
RunRowShapes ==
  { [addr |-> Chars("PID.2"), word |-> Chars("="), value |-> Chars("smith")],
    [addr |-> Chars("PV1.1"), word |-> S_exists, value |-> <<>>],
    [addr |-> Chars("PID.2"), word |-> Chars("is"), value |-> Chars("smith")],
    [addr |-> Chars("PID.2x"), word |-> Chars("="), value |-> Chars("smith")] }

WriteRow(sh) ==
  sh.addr \o <<" ">> \o sh.word
  \o (IF sh.value = <<>> THEN <<>> ELSE <<" ">> \o sh.value)

\* a row is left blank or filled
RunRowInputs == { <<>> } \cup { WriteRow(sh) : sh \in RunRowShapes }

RunExpressions == { <<>>, Chars("F1 AND F2"), Chars(" f1 or not f3"),
                    Chars("F1 AND"), Chars("F1 AND F9"), Chars("(F1 OR F2") }

RECURSIVE RunInputSeqs(_)
\* the sequences of 1 to n row inputs
RunInputSeqs(n) ==
  IF n = 1 THEN { <<t>> : t \in RunRowInputs }
  ELSE LET shorter == RunInputSeqs(n - 1)
       IN shorter \cup { Append(r, t) : t \in RunRowInputs,
                                        r \in { q \in shorter : Len(q) = n - 1 } }

RunConfigs ==
  { getFiltersConfig(RowsOf(inputs), logicMode, customLogicInput) :
      inputs \in RunInputSeqs(MaxRows),
      logicMode \in {"AND", "OR", "custom"},
      customLogicInput \in RunExpressions }

InitRun ==
  /\ pc = "ready"
  /\ currentContent \in RunContents
  /\ statsField \in RunFields
  /\ chosenFilters \in RunConfigs
  /\ ~(statsField = <<>> /\ chosenFilters = NoFilters)
  /\ logicTree = NoTree
  /\ matchResult = "undefined"
  /\ extraction = NoResult
  /\ calls = NoCalls
  /\ stats = NoResult
  /\ chartData = NoSlices
  /\ segmented = <<>>
  /\ PanelIdle
  /\ AddrIdle
  /\ FilterIdle
  /\ SingleIdle
  /\ LogicIdle

ExtractFieldValues ==
  /\ pc = "ready"
  /\ \E run \in { ExtractionRun(currentContent, statsField, chosenFilters) } :
        /\ extraction' = run.returned
        /\ calls' = run.calls
  /\ pc' = "extracted"
  /\ UNCHANGED <<currentContent, statsField, stats, chartData, segmented, addrVars, filterVars,
                 singleVars, logicVars, matchVars, panelVars>>

GenerateStatistics ==
  /\ pc = "extracted"
  /\ stats' = generateStatistics(extraction)
  /\ pc' = "done"
  /\ UNCHANGED <<currentContent, statsField, extraction, calls, chartData, segmented, addrVars,
                 filterVars, singleVars, logicVars, matchVars, panelVars>>

NextRun == ExtractFieldValues \/ GenerateStatistics

SpecRun == InitRun /\ [][NextRun]_vars

\* the custom expression of the run is missing or fails validateCustomLogic
CustomFault ==
  /\ chosenFilters.logic = "custom"
  /\ \/ Trim(chosenFilters.expression) = <<>>
     \/ ~validateCustomLogic(chosenFilters.expression,
                             LabelsOf(chosenFilters.filters)).valid

\* the reason of the custom fault
CustomReason ==
  IF Trim(chosenFilters.expression) = <<>>
    THEN [message |-> "Please enter a custom logic expression",
          reason |-> "", labels |-> <<>>]
    ELSE LET outcome == validateCustomLogic(chosenFilters.expression,
                                            LabelsOf(chosenFilters.filters))
         IN [message |-> "Invalid custom logic",
             reason |-> outcome.error, labels |-> outcome.unknown]

\* the field typed is blank or an address, and every condition parses
OtherInputsValid ==
  /\ statsField = <<>> \/ parseFieldReference(Str(statsField)).ok
  /\ InvalidFilters(chosenFilters.filters) = <<>>

\* C10 as stated: in mode custom, when the custom expression is missing or
\* fails validateCustomLogic, extractFieldValues returns only an error that
\* carries the reason of that fault, evaluateCustomLogic is never called, no
\* message is filtered, and generateStatistics returns only that error.
C10_CustomFaultReported ==
  (pc # "ready" /\ CustomFault) =>
    /\ DOMAIN extraction = {"error"}
    /\ extraction.error = CustomReason
    /\ calls = NoCalls
    /\ pc = "done" => stats = [error |-> extraction.error]

\* C10 (amended): in mode custom, when the custom expression is missing or
\* fails validateCustomLogic, extractFieldValues returns only an error,
\* evaluateCustomLogic is never called, no message is filtered, and
\* generateStatistics returns only that error; the error carries the reason
\* of the custom fault when the field and every condition are valid, and
\* otherwise the fault of the field or of the conditions, which are checked
\* first.
C10_CustomFaultStopsRun ==
  (pc # "ready" /\ CustomFault) =>
    /\ DOMAIN extraction = {"error"}
    /\ IF OtherInputsValid THEN extraction.error = CustomReason
       ELSE extraction.error.message \in {"Invalid field reference",
                                          "Invalid filter format"}
    /\ calls = NoCalls
    /\ pc = "done" => stats = [error |-> extraction.error]

\* a run on PID.2 with two valid conditions and the expression F1 AND F9
\* ended with the error that names F9
C10_Witness ==
  /\ pc = "done"
  /\ CustomFault
  /\ statsField = Chars("PID.2")
  /\ Len(chosenFilters.filters) = 2
  /\ extraction.error.message = "Invalid custom logic"
  /\ extraction.error.reason = "Unknown filter label(s)"
  /\ extraction.error.labels = << Chars("F9") >>
  /\ calls = NoCalls
  /\ stats = [error |-> extraction.error]

(***************************************************************************)
(* The filter grammar, as section 4.5 of the specification states it: an   *)
(* address of the address grammar, then exists or !exists alone, or one of *)
(* =, !=, contains, !contains and a value.                                 *)
(***************************************************************************)
ConformsToFilterGrammar(sh) ==
  /\ ConformsToAddressGrammar(sh.addr)
  /\ \/ ToLowerCase(sh.word) \in {S_exists, S_notexists} /\ sh.value = <<>>
     \/ ToLowerCase(sh.word) \in {<<"=">>, <<"!", "=">>, S_contains, S_notcontains}

\* how the expression of a condition was typed
ShapeOf(text) == CHOOSE sh \in RunRowShapes : WriteRow(sh) = text

\* the labels of the conditions that do not parse under the filter grammar
OffendingLabels ==
  LabelsOf(SelectSeq(chosenFilters.filters,
     LAMBDA f : ~ConformsToFilterGrammar(ShapeOf(f.expression))))

\* the labels of the conditions that parseFilterExpression returns null for
RejectedLabels ==
  LabelsOf(SelectSeq(chosenFilters.filters,
     LAMBDA f : ~parseFilterExpression(Str(f.expression)).ok))

\* the run ended with the invalid filter error that lists the labels, and
\* nothing else: no filtering, no statistics
OnlyFilterErrorListing(labels) ==
  /\ DOMAIN extraction = {"error"}
  /\ extraction.error.message = "Invalid filter format"
  /\ extraction.error.labels = labels
  /\ calls = NoCalls
  /\ pc = "done" => stats = [error |-> extraction.error]

\* C11: if at least one condition does not parse under the filter grammar,
\* extractFieldValues returns an error that lists exactly the labels of the
\* conditions that failed to parse, and no filtering or statistics are
\* produced, whatever the combination mode.
C11_OffendingLabelsListed ==
  (pc # "ready" /\ OffendingLabels # <<>>) => OnlyFilterErrorListing(OffendingLabels)

\* C11, for the conditions that parseFilterExpression rejects, in a run whose
\* field is blank or an address: the error lists exactly their labels.
C11_RejectedLabelsListed ==
  (/\ pc # "ready"
   /\ RejectedLabels # <<>>
   /\ statsField = <<>> \/ parseFieldReference(Str(statsField)).ok)
    => OnlyFilterErrorListing(RejectedLabels)

(***************************************************************************)
(* A run on a text of at most MaxContentLines lines, the first of them a   *)
(* header line: Init writes the text, types the field and picks no filter, *)
(* one filter or two; extractFieldValues and generateStatistics follow.    *)
(***************************************************************************)
StatsLines == { HeaderLine, Chars("PID|2|SMITH"), Chars("PID|10| |x"),
                Chars("PID|1|constructor"), Chars("PV1|(empty)") }

RECURSIVE StatsLineSeqs(_)
\* the sequences of 1 to n lines that start with the header line
StatsLineSeqs(n) ==
  IF n = 1 THEN { << HeaderLine >> }
  ELSE LET shorter == StatsLineSeqs(n - 1)
       IN shorter \cup { Append(r, l) : l \in StatsLines,
                                        r \in { q \in shorter : Len(q) = n - 1 } }

StatsContents == { Join(lines, <<"\n">>) : lines \in StatsLineSeqs(MaxContentLines) }

StatsFields == { Chars("PID.1"), Chars("PID.2"), Chars("pid.99"),
                 Chars("OBX.1"), Chars("PV1.1") }

StatsConfigs ==
  { NoFilters,
    getFiltersConfig(RowsOf(<< Chars("PV1.1 !exists") >>), "AND", <<>>),
    getFiltersConfig(RowsOf(<< Chars("PID.2 = smith"), Chars("PID.1 != 1") >>),
                     "OR", <<>>) }

InitStats ==
  /\ pc = "ready"
  /\ currentContent \in StatsContents
  /\ statsField \in StatsFields
  /\ chosenFilters \in StatsConfigs
  /\ logicTree = NoTree
  /\ matchResult = "undefined"
  /\ extraction = NoResult
  /\ calls = NoCalls
  /\ stats = NoResult
  /\ chartData = NoSlices
  /\ segmented = <<>>
  /\ PanelIdle
  /\ AddrIdle
  /\ FilterIdle
  /\ SingleIdle
  /\ LogicIdle

NextStats == ExtractFieldValues \/ GenerateStatistics

SpecStats == InitStats /\ [][NextStats]_vars

\* the address typed into the field
GivenAddress == parseFieldReference(Str(statsField))

\* the messages of the text that pass the filter, in their order
SurvivingMessages ==
  IF Len(chosenFilters.filters) = 0 THEN parseMessagesForFiltering(currentContent)
  ELSE FilterMessages(parseMessagesForFiltering(currentContent), chosenFilters)

\* the segments of a message whose kind is that of the address, in their order
KindSegments(msg) ==
  SelectSeq(msg.segments, LAMBDA seg : seg.segmentId = GivenAddress.segment)

\* the extractions of the message of index m, in their order
ExtractionsOf(m) ==
  SelectSeq(extraction.results, LAMBDA e : e.messageIndex = m)

\* the value the address resolves to in a segment of a message
AddressedValue(msg, seg) ==
  extractValueFromSegment(seg, GivenAddress.field, GivenAddress.component,
     GivenAddress.subcomponent, msg.componentSeparator, msg.subcomponentSeparator)

\* the extractions a message of index m is to contribute
ExpectedExtractions(m) ==
  LET msg == SurvivingMessages[m + 1]
      segs == KindSegments(msg)
  IN IF Len(segs) = 0 THEN << [messageIndex |-> m, value |-> <<>>] >>
     ELSE [k \in 1..Len(segs) |->
             [messageIndex |-> m, value |-> AddressedValue(msg, segs[k])]]

\* the run went through with an address
ExtractedWithAddress ==
  pc # "ready" /\ statsField # <<>> /\ ~HasError(extraction)

\* C12: with an address given, every filtered message contributes one
\* extraction per segment of the addressed kind, all of them and in order,
\* or exactly one empty extraction when it has no such segment; the
\* extractions follow the order of the messages, and totalOccurrences is
\* their number.
C12_OneExtractionPerSegment ==
  ExtractedWithAddress =>
    /\ \A i \in 1..Len(extraction.results) :
          extraction.results[i].messageIndex \in 0..(Len(SurvivingMessages) - 1)
    /\ \A i \in 1..Len(extraction.results) : \A j \in i..Len(extraction.results) :
          extraction.results[i].messageIndex <= extraction.results[j].messageIndex
    /\ \A m \in 0..(Len(SurvivingMessages) - 1) :
          ExtractionsOf(m) = ExpectedExtractions(m)
    /\ pc = "done" => stats.totalOccurrences = Len(extraction.results)

\* two messages passed, the first with two PID segments of different PID.1
\* and the second with none: three extractions, the last one empty
C12_Witness ==
  /\ pc = "done"
  /\ statsField = Chars("PID.1")
  /\ ~HasError(extraction)
  /\ Len(SurvivingMessages) = 2
  /\ Len(KindSegments(SurvivingMessages[1])) = 2
  /\ Len(KindSegments(SurvivingMessages[2])) = 0
  /\ extraction.results[1].value # extraction.results[2].value
  /\ extraction.results[3] = [messageIndex |-> 1, value |-> <<>>]
  /\ stats.totalOccurrences = 3

\* statistics were generated for an address
CountedWithAddress == ExtractedWithAddress /\ pc = "done"

\* the filtered messages with at least one extraction that is not empty after
\* trimming
ValuedMessages ==
  { m \in 0..(Len(SurvivingMessages) - 1) :
      \E i \in 1..Len(extraction.results) :
         /\ extraction.results[i].messageIndex = m
         /\ Trim(extraction.results[i].value) # <<>> }

\* the number of extractions that are empty after trimming
BlankExtractions ==
  Cardinality({ i \in 1..Len(extraction.results) :
                  Trim(extraction.results[i].value) = <<>> })

\* the count the empty bucket of the distinct values shows, 0 without a bucket
EmptyBucketCount ==
  LET at == { i \in 1..Len(stats.distinctValues) :
                stats.distinctValues[i].value = S_empty }
  IN IF at = {} THEN 0 ELSE stats.distinctValues[CHOOSE i \in at : TRUE].count

\* C13: a filtered message counts towards messagesWithValue exactly when one
\* of its extractions is not empty after trimming, and towards
\* messagesWithoutValue otherwise, a message without a segment of the kind
\* included; pid.99 over two messages gives two empty extractions, 0 messages
\* with a value, 2 without, and an empty bucket of count 2.
C13_MessagesCountedByValue ==
  CountedWithAddress =>
    /\ stats.messagesWithValue = Cardinality(ValuedMessages)
    /\ stats.messagesWithoutValue = Len(SurvivingMessages) - Cardinality(ValuedMessages)
    /\ ( /\ statsField = Chars("pid.99")
         /\ Len(SurvivingMessages) = 2
         /\ \A m \in 1..2 : Len(KindSegments(SurvivingMessages[m])) <= 1 ) =>
          /\ extraction.results = << [messageIndex |-> 0, value |-> <<>>],
                                     [messageIndex |-> 1, value |-> <<>>] >>
          /\ stats.messagesWithValue = 0
          /\ stats.messagesWithoutValue = 2
          /\ stats.distinctValues = << [value |-> S_empty, count |-> 2] >>

\* two messages passed: the first has a blank PID.2 and a PID.2 with content,
\* the second no PID segment
C13_Witness ==
  /\ CountedWithAddress
  /\ statsField = Chars("PID.2")
  /\ Len(SurvivingMessages) = 2
  /\ Len(KindSegments(SurvivingMessages[1])) = 2
  /\ Len(KindSegments(SurvivingMessages[2])) = 0
  /\ extraction.results[1].value = <<" ">>
  /\ Trim(extraction.results[2].value) # <<>>
  /\ ValuedMessages = {0}
  /\ stats.messagesWithValue = 1
  /\ stats.messagesWithoutValue = 1
  /\ EmptyBucketCount = 2

\* the run of the example: pid.99 over two messages
C13_ExampleReached ==
  /\ CountedWithAddress
  /\ statsField = Chars("pid.99")
  /\ Len(SurvivingMessages) = 2
  /\ Len(KindSegments(SurvivingMessages[1])) = 1
  /\ Len(KindSegments(SurvivingMessages[2])) = 1
  /\ stats.messagesWithoutValue = 2

\* the value an extraction is counted under
DisplayValue(value) == IF Trim(value) = <<>> THEN S_empty ELSE Trim(value)

\* the position of the first extraction counted under a value
FirstExtraction(v) ==
  CHOOSE i \in 1..Len(extraction.results) :
    /\ DisplayValue(extraction.results[i].value) = v
    /\ \A k \in 1..(i - 1) : DisplayValue(extraction.results[k].value) # v

\* distinctValues goes by descending count
DescendingCounts ==
  \A i \in 1..Len(stats.distinctValues) : \A j \in (i + 1)..Len(stats.distinctValues) :
     stats.distinctValues[i].count >= stats.distinctValues[j].count

\* among the values of equal count that satisfy Concerned, the one extracted
\* first comes first
TiesByFirstExtraction(Concerned(_)) ==
  \A i \in 1..Len(stats.distinctValues) : \A j \in (i + 1)..Len(stats.distinctValues) :
     ( /\ stats.distinctValues[i].count = stats.distinctValues[j].count
       /\ Concerned(stats.distinctValues[i].value)
       /\ Concerned(stats.distinctValues[j].value) ) =>
         FirstExtraction(stats.distinctValues[i].value)
           < FirstExtraction(stats.distinctValues[j].value)

\* C14: distinctValues is sorted by descending count, and among values of
\* equal count the one whose first extraction occurred earlier comes first,
\* whatever the extracted values are, numeric strings included.
C14_SortedByCountThenFirstSeen ==
  CountedWithAddress =>
    DescendingCounts /\ TiesByFirstExtraction(LAMBDA v : TRUE)

\* every count of distinctValues is a number
CountsAreNumbers ==
  \A i \in 1..Len(stats.distinctValues) : stats.distinctValues[i].count # NaN

\* the same with the ties among numeric strings, and the lists that hold a
\* count that is not a number, left aside
C14_SortedLeavingNumeralsAside ==
  (CountedWithAddress /\ CountsAreNumbers) =>
    DescendingCounts /\ TiesByFirstExtraction(LAMBDA v : ~IsArrayIndex(v))

\* PID.1 of one message with the values 2 and 1, in this order: the
\* distinct values come out as 1, 2
C14_NumeralsReordered ==
  /\ CountedWithAddress
  /\ statsField = Chars("PID.1")
  /\ [i \in 1..Len(extraction.results) |-> extraction.results[i].value]
       = << <<"2">>, <<"1">> >>
  /\ stats.distinctValues = << [value |-> <<"1">>, count |-> 1],
                               [value |-> <<"2">>, count |-> 1] >>

\* the kind of the address is the kind of no segment of the text
KindInNoMessage ==
  LET messages == parseMessagesForFiltering(currentContent)
  IN \A m \in 1..Len(messages) : KindSegments(messages[m]) = <<>>

\* C15: when a well-formed address names a segment kind that occurs in none
\* of the messages, the run reports that no matching data was found
\* (segmentNotFound), which is not what it reports for a segment that is
\* present with an empty addressed value.
C15_AbsentKindReported ==
  (CountedWithAddress /\ KindInNoMessage) =>
     /\ stats.segmentNotFound
     /\ renderStatistics(stats) = "no occurrences found"

\* OBX.1 over two messages without an OBX segment: two empty extractions, an
\* empty bucket of count 2 and the statistics view, as for a PID.99 that is
\* out of range in segments that are present
C15_AbsentKindCountedAsEmpty ==
  /\ CountedWithAddress
  /\ KindInNoMessage
  /\ statsField = Chars("OBX.1")
  /\ Len(SurvivingMessages) = 2
  /\ ~stats.segmentNotFound
  /\ stats.distinctValues = << [value |-> S_empty, count |-> 2] >>
  /\ renderStatistics(stats) = "statistics"

(***************************************************************************)
(* A run that exports: the text has at most MaxContentLines lines ended by *)
(* "\r\n", the first of them one of two header lines that declare          *)
(* different field separators; no filter, a filter that every message      *)
(* passes, or a filter on PID.2.                                           *)
(***************************************************************************)
HashHeaderLine == Chars("MSH#^~\\&#App")

ExportLines == { HeaderLine, HashHeaderLine, Chars("PID|1|smith"),
                 Chars("PID#1#smith"), Chars("PV1"), Chars("ZZZ|1") }

RECURSIVE ExportLineSeqs(_)
\* the sequences of 1 to n lines that start with a header line
ExportLineSeqs(n) ==
  IF n = 1 THEN { << HeaderLine >>, << HashHeaderLine >> }
  ELSE LET shorter == ExportLineSeqs(n - 1)
       IN shorter \cup { Append(r, l) : l \in ExportLines,
                                        r \in { q \in shorter : Len(q) = n - 1 } }

ExportContents ==
  { Join(lines, <<"\r", "\n">>) : lines \in ExportLineSeqs(MaxContentLines) }

ExportFields == { <<>>, Chars("PID.2") }

EveryMessagePasses == getFiltersConfig(RowsOf(<< Chars("MSH.1 exists") >>), "AND", <<>>)

ExportConfigs ==
  { NoFilters, EveryMessagePasses,
    getFiltersConfig(RowsOf(<< Chars("PID.2 = smith") >>), "AND", <<>>) }

InitExport ==
  /\ pc = "ready"
  /\ currentContent \in ExportContents
  /\ statsField \in ExportFields
  /\ chosenFilters \in ExportConfigs
  /\ logicTree = NoTree
  /\ matchResult = "undefined"
  /\ extraction = NoResult
  /\ calls = NoCalls
  /\ stats = NoResult
  /\ chartData = NoSlices
  /\ segmented = <<>>
  /\ PanelIdle
  /\ AddrIdle
  /\ FilterIdle
  /\ SingleIdle
  /\ LogicIdle

NextExport == ExtractFieldValues \/ GenerateStatistics

SpecExport == InitExport /\ [][NextExport]_vars

\* a segment written with the field separator of its message
WrittenSegment(msg, seg) ==
  seg.segmentId \o <<msg.fieldSeparator>> \o Join(seg.fields, <<msg.fieldSeparator>>)

\* a message written segment by segment
WrittenMessage(msg) ==
  Join([k \in 1..Len(msg.segments) |-> WrittenSegment(msg, msg.segments[k])], <<"\r">>)

\* the export text of the messages that passed the filter
ExpectedExport ==
  Join([m \in 1..Len(SurvivingMessages) |-> WrittenMessage(SurvivingMessages[m])],
       <<"\r", "\r", "\n">>)

\* the run went through with a filter
ExtractedWithFilter ==
  pc # "ready" /\ ~HasError(extraction) /\ Len(chosenFilters.filters) > 0

\* C16: the export text is, for the messages that passed the filter in their
\* original order, each segment as its kind, the field separator of its
\* message and its fields rejoined with that separator, the segments of a
\* message joined with "\r" and the messages joined with "\r\r\n".
C16_ExportFormat ==
  ExtractedWithFilter =>
    /\ extraction.filteredHL7Content = ExpectedExport
    /\ pc = "done" => stats.filteredHL7Content = ExpectedExport

\* of two messages the one with the separator # passed, with its two segments
C16_Witness ==
  /\ ExtractedWithFilter
  /\ pc = "done"
  /\ Len(parseMessagesForFiltering(currentContent)) = 2
  /\ Len(SurvivingMessages) = 1
  /\ SurvivingMessages[1].fieldSeparator = "#"
  /\ stats.filteredHL7Content = HashHeaderLine \o <<"\r">> \o Chars("PID#1#smith")

\* two messages with different separators passed, of two segments each
C16_TwoMessagesExported ==
  /\ ExtractedWithFilter
  /\ Len(SurvivingMessages) = 2
  /\ SurvivingMessages[1].fieldSeparator # SurvivingMessages[2].fieldSeparator
  /\ Len(SurvivingMessages[1].segments) = 2
  /\ Len(SurvivingMessages[2].segments) = 2

\* the lines of a text that are not empty
LinesOf(text) == SelectSeq(SplitLines(text), LAMBDA l : l # <<>>)

\* every message of the text is among the filtered ones
NothingFilteredOut ==
  Len(SurvivingMessages) = Len(parseMessagesForFiltering(currentContent))

\* C17: segmenting a text and exporting its messages again with no filter
\* applied gives back every segment line of the text, kind and fields, the
\* line terminators aside.
C17_RoundTrip ==
  (pc # "ready" /\ ~HasError(extraction) /\ Len(chosenFilters.filters) = 0) =>
     LinesOf(extraction.filteredHL7Content) = LinesOf(currentContent)

\* the same when a filter is applied that no message fails
C17_RoundTripThroughFilter ==
  (ExtractedWithFilter /\ NothingFilteredOut) =>
     LinesOf(extraction.filteredHL7Content) = LinesOf(currentContent)

\* the field separator in force at line i: that of the last header line
SeparatorAt(lines, i) ==
  LET h == CHOOSE k \in 1..i :
             /\ StartsWith(lines[k], S_MSH)
             /\ \A j \in (k + 1)..i : ~StartsWith(lines[j], S_MSH)
  IN lines[h][4]

\* every line is a kind of HL7_SEGMENT_IDS followed by the field separator
\* in force, with no blank around it
PlainLines(lines) ==
  \A i \in 1..Len(lines) :
     /\ Trim(lines[i]) = lines[i]
     /\ Len(lines[i]) > 3
     /\ \E id \in HL7_SEGMENT_IDS : StartsWith(lines[i], id)
     /\ lines[i][4] = SeparatorAt(lines, i)

\* the round trip of the texts of plain lines, through a filter that no
\* message fails
C17_RoundTripOfPlainLines ==
  (ExtractedWithFilter /\ NothingFilteredOut /\ PlainLines(LinesOf(currentContent))) =>
     LinesOf(extraction.filteredHL7Content) = LinesOf(currentContent)

\* no filter: the export text is empty
C17_NothingExported ==
  /\ pc = "done"
  /\ ~HasError(extraction)
  /\ Len(chosenFilters.filters) = 0
  /\ Len(parseMessagesForFiltering(currentContent)) = 2
  /\ extraction.filteredHL7Content = <<>>

\* a filter that every message passes: the line PV1 is exported as PV1|
C17_SeparatorAdded ==
  /\ ExtractedWithFilter
  /\ NothingFilteredOut
  /\ LinesOf(currentContent) = << HeaderLine, Chars("PV1") >>
  /\ LinesOf(extraction.filteredHL7Content) = << HeaderLine, Chars("PV1|") >>

\* a filter that every message passes: the line ZZZ|1 is not exported
C17_LineDropped ==
  /\ ExtractedWithFilter
  /\ NothingFilteredOut
  /\ LinesOf(currentContent) = << HeaderLine, Chars("ZZZ|1") >>
  /\ LinesOf(extraction.filteredHL7Content) = << HeaderLine >>

\* a round trip of plain lines that gives the text back
C17_PlainRoundTripReached ==
  /\ ExtractedWithFilter
  /\ NothingFilteredOut
  /\ PlainLines(LinesOf(currentContent))
  /\ Len(LinesOf(currentContent)) = 4
  /\ Len(SurvivingMessages) = 2
  /\ LinesOf(extraction.filteredHL7Content) = LinesOf(currentContent)

(***************************************************************************)
(* How the value of a custom expression is computed (SpecCustom).          *)
(***************************************************************************)
\* the call of Function made by the step for the message and chosenFilters
CodeExecution ==
  FunctionCall(chosenFilters.expression,
     BuildFilterResults(<<>>, chosenFilters.filters, 1, message.segments,
                        message.componentSeparator, message.subcomponentSeparator))

\* the step evaluated a custom expression
CustomEvaluated == pc = "done" /\ ReachesEvaluate(chosenFilters)

\* C18: the value of a custom expression is computed by an evaluator of its
\* own over the tokens LABEL, AND, OR, NOT, ( and ), and no text of the
\* expression is handed to a facility that executes code.
C18_NoCodeExecution ==
  CustomEvaluated => ~CodeExecution.called

\* the expression (F1 OR F2) AND F10 typed with blanks: its parentheses and
\* blanks reach the body given to Function, around the substituted words
C18_ExpressionTextExecuted ==
  /\ CustomEvaluated
  /\ chosenFilters.expression = Chars("(F1 OR F2) AND F10")
  /\ CodeExecution.called
  /\ \E a, b, c \in {Chars("true"), Chars("false")} :
        CodeExecution.body = Chars("\"use strict\"; return ((") \o a \o Chars(" || ")
                               \o b \o Chars(") && ") \o c \o <<")">>

\* the expressions with a tab are the ones that do not reach Function
C18_ExecutedUnlessRejected ==
  CustomEvaluated =>
    (CodeExecution.called <=>
       \A i \in 1..Len(chosenFilters.expression) : chosenFilters.expression[i] # "\t")

(***************************************************************************)
(* A run up to the pie chart: the text is one message whose PID.1 takes at *)
(* most MaxValues distinct values, at most MaxTwice of them extracted      *)
(* twice; the field                                                        *)
(* is PID.1 and there is no filter. renderStatistics follows               *)
(* generateStatistics and draws the chart of the statistics view.          *)
(***************************************************************************)
ValueNames == Chars("abcdefghijklmnopqrstuvwxyz")

\* a PID line with the i-th value as its first field
ValueLine(i) == Chars("PID|") \o << ValueNames[i] >>

\* a message with n values, the first k of them twice
ChartText(n, k) ==
  Join(<< HeaderLine >> \o [i \in 1..n |-> ValueLine(i)] \o [i \in 1..k |-> ValueLine(i)],
       <<"\r">>)

InitChart ==
  /\ pc = "ready"
  /\ \E n \in 0..MaxValues : \E k \in 0..MaxTwice :
        k <= n /\ currentContent = ChartText(n, k)
  /\ statsField = Chars("PID.1")
  /\ chosenFilters = NoFilters
  /\ logicTree = NoTree
  /\ matchResult = "undefined"
  /\ extraction = NoResult
  /\ calls = NoCalls
  /\ stats = NoResult
  /\ chartData = NoSlices
  /\ segmented = <<>>
  /\ PanelIdle
  /\ AddrIdle
  /\ FilterIdle
  /\ SingleIdle
  /\ LogicIdle

\* renderStatistics(stats, fieldRef, resultContainerId) of runStatistics
RenderStatistics ==
  /\ pc = "done"
  /\ chartData' = IF renderStatistics(stats) = "statistics"
                    THEN createPieChart(stats) ELSE NoSlices
  /\ pc' = "rendered"
  /\ UNCHANGED <<currentContent, statsField, extraction, calls, stats, segmented, addrVars,
                 filterVars, singleVars, logicVars, matchVars, panelVars>>

NextChart == ExtractFieldValues \/ GenerateStatistics \/ RenderStatistics

SpecChart == InitChart /\ [][NextChart]_vars

\* the slices other than the one that groups values
OwnSlices == SelectSeq(chartData, LAMBDA d : d.value # S_Other)

\* the slices that group values
OtherSlices == SelectSeq(chartData, LAMBDA d : d.value = S_Other)

\* the chart shows the first `own` distinct values as slices of their own
\* when there are more than 15 distinct values, and the rest as one slice
ChartKeeps(own) ==
  LET distinct == stats.distinctValues
  IN /\ Len(distinct) <= 15 => (chartData = distinct /\ OtherSlices = <<>>)
     /\ Len(distinct) > 15 =>
          /\ OwnSlices = SubSeq(distinct, 1, own)
          /\ OtherSlices = << [value |-> S_Other,
                               count |-> SumCounts(SubSeq(distinct, own + 1,
                                                          Len(distinct)))] >>

\* C19: the pie chart shows the 15 most frequent distinct values as slices
\* of their own and one Other slice that sums the counts of the remaining
\* values; with at most 15 distinct values it has no Other slice.
C19_FifteenSlicesAndOther ==
  pc = "rendered" => ChartKeeps(15)

\* what the chart does: 14 slices of their own and the Other slice, 15 slices
\* in all, as soon as there are more than 15 distinct values
C19_FourteenSlicesAndOther ==
  pc = "rendered" => (ChartKeeps(14) /\ Len(chartData) <= 15)

\* 16 distinct values, 2 of them extracted twice: the 15th value is not a
\* slice of its own, the Other slice sums the 15th and the 16th
C19_FifteenthValueGrouped ==
  /\ pc = "rendered"
  /\ Len(stats.distinctValues) = 16
  /\ stats.distinctValues[1].count = 2
  /\ Len(chartData) = 15
  /\ chartData[15] = [value |-> S_Other, count |-> 2]
  /\ \A i \in 1..15 : chartData[i].value # stats.distinctValues[15].value

\* 15 distinct values: 15 slices and no Other slice
C19_FifteenValuesAllShown ==
  /\ pc = "rendered"
  /\ Len(stats.distinctValues) = 15
  /\ chartData = stats.distinctValues

(***************************************************************************)
(* A run that addresses fields of header segments and of PID segments: the *)
(* text has at most MaxFieldLines lines, the first of them a header line   *)
(* (one of them is the bare kind MSH), and no filter is set.               *)
(***************************************************************************)
LongHeaderLine == Chars("MSH|^~\\&|App|Fac^1")

\* a header that declares the separators #, $ and *
DollarHeaderLine == Chars("MSH#$~\\*#App")

FieldLines == { LongHeaderLine, DollarHeaderLine, S_MSH,
                Chars("PID|1|doe^john&jr|x"), Chars("PID#1#a$b*c^d") }

RECURSIVE FieldLineSeqs(_)
\* the sequences of 1 to n lines that start with a header line
FieldLineSeqs(n) ==
  IF n = 1 THEN { << LongHeaderLine >>, << DollarHeaderLine >>, << S_MSH >> }
  ELSE LET shorter == FieldLineSeqs(n - 1)
       IN shorter \cup { Append(r, l) : l \in FieldLines,
                                        r \in { q \in shorter : Len(q) = n - 1 } }

FieldContents == { Join(lines, <<"\n">>) : lines \in FieldLineSeqs(MaxFieldLines) }

FieldAddresses ==
  { Chars(a) : a \in { "MSH.1", "MSH.2", "MSH.3", "MSH.4", "MSH.5", "MSH.2.1",
                       "MSH.4.2", "PID.1", "PID.2", "PID.2.2", "PID.3", "PID.4",
                       "PID.2.3", "PID.2.2.1", "PID.2.2.2", "PID.2.2.3" } }

InitField ==
  /\ pc = "ready"
  /\ currentContent \in FieldContents
  /\ statsField \in FieldAddresses
  /\ chosenFilters = NoFilters
  /\ logicTree = NoTree
  /\ matchResult = "undefined"
  /\ extraction = NoResult
  /\ calls = NoCalls
  /\ stats = NoResult
  /\ chartData = NoSlices
  /\ segmented = <<>>
  /\ PanelIdle
  /\ AddrIdle
  /\ FilterIdle
  /\ SingleIdle
  /\ LogicIdle

NextField == ExtractFieldValues \/ GenerateStatistics

SpecField == InitField /\ [][NextField]_vars

\* the n-th entry of the parsed field list, counted from 1; empty beyond it
FieldEntry(seg, n) == IF n \in 1..Len(seg.fields) THEN seg.fields[n] ELSE <<>>

\* the field that the number fieldNum addresses in a segment
AddressedField(msg, seg, fieldNum) ==
  IF seg.segmentId = S_MSH
    THEN IF fieldNum = 1 THEN << msg.fieldSeparator >>
         ELSE IF fieldNum = 2 THEN seg.fields[1]
         ELSE FieldEntry(seg, fieldNum - 1)
    ELSE FieldEntry(seg, fieldNum)

\* the value of the address in a segment: the addressed field, or the
\* component of it that the address names; fields 1 and 2 of a header
\* segment are taken whole
ValueByOffset(msg, seg) ==
  IF seg.segmentId = S_MSH /\ GivenAddress.field <= 2
    THEN AddressedField(msg, seg, GivenAddress.field)
    ELSE extractComponentValue(AddressedField(msg, seg, GivenAddress.field),
            GivenAddress.component, GivenAddress.subcomponent,
            msg.componentSeparator, msg.subcomponentSeparator)

\* the segment that the i-th extraction was taken from
SegmentOfExtraction(i) ==
  LET m == extraction.results[i].messageIndex
      earlier == Cardinality({ k \in 1..(i - 1) : extraction.results[k].messageIndex = m })
  IN KindSegments(SurvivingMessages[m + 1])[earlier + 1]

\* the i-th extraction was taken from a segment
TakenFromSegment(i) ==
  KindSegments(SurvivingMessages[extraction.results[i].messageIndex + 1]) # <<>>

\* C20: extractValueFromSegment resolves field 1 of an MSH segment to the
\* field separator, field 2 to the encoding characters fields[0], field
\* N > 2 to fields[N-2]; field N of any other kind to fields[N-1]; and a
\* field number beyond the fields of the segment to the empty string.
C20_HeaderOffset ==
  ExtractedWithAddress =>
    \A i \in 1..Len(extraction.results) :
       TakenFromSegment(i) =>
         extraction.results[i].value
           = ValueByOffset(SurvivingMessages[extraction.results[i].messageIndex + 1],
                           SegmentOfExtraction(i))

\* MSH.4 of the header MSH|^~\&|App|Fac^1 is Fac^1, the entry fields[2]
C20_Witness ==
  /\ ExtractedWithAddress
  /\ statsField = Chars("MSH.4")
  /\ SurvivingMessages[1].segments[1].fields
       = << Chars("^~\\&"), Chars("App"), Chars("Fac^1") >>
  /\ extraction.results[1].value = Chars("Fac^1")

\* MSH.1 and MSH.2 of a header with the separator #, MSH.5 beyond the
\* header's fields, PID.2 and PID.4 of PID|1|doe^john|x
C20_CasesReached(address, value) ==
  /\ ExtractedWithAddress
  /\ statsField = Chars(address)
  /\ \E i \in 1..Len(extraction.results) :
        TakenFromSegment(i) /\ extraction.results[i].value = value

C20_SeparatorReached == C20_CasesReached("MSH.1", <<"#">>)
C20_EncodingReached == C20_CasesReached("MSH.2", Chars("$~\\*"))
C20_BeyondReached == C20_CasesReached("MSH.5", <<>>)
C20_OtherKindReached == C20_CasesReached("PID.2", Chars("doe^john&jr"))


\* the n-th piece, counted from 1, of a text split on a delimiter; empty
\* beyond the pieces
Piece(text, delimiter, n) ==
  LET pieces == SplitChar(text, delimiter)
  IN IF n \in 1..Len(pieces) THEN pieces[n] ELSE <<>>

\* the piece of a raw field that the component and the subcomponent of the
\* address name, with the delimiters of the message
DrillDown(msg, raw) ==
  LET piece == Piece(raw, msg.componentSeparator, GivenAddress.component)
  IN IF GivenAddress.subcomponent = Absent THEN piece
     ELSE Piece(piece, msg.subcomponentSeparator, GivenAddress.subcomponent)

\* the run went through with an address that carries a component
ExtractedWithComponent ==
  ExtractedWithAddress /\ GivenAddress.component # Absent

\* the i-th extraction is the drill-down into the field its address locates
DrilledDown(i) ==
  LET msg == SurvivingMessages[extraction.results[i].messageIndex + 1]
  IN extraction.results[i].value
       = DrillDown(msg, AddressedField(msg, SegmentOfExtraction(i), GivenAddress.field))

\* the i-th extraction was taken from field 1 or 2 of a header segment
HeaderBlock(i) ==
  SegmentOfExtraction(i).segmentId = S_MSH /\ GivenAddress.field <= 2

\* C21: for an address with a component c, and possibly a subcomponent s,
\* in every segment kind and for every field number, the value is the c-th
\* piece of the located raw field split on the component delimiter of the
\* message, then the s-th piece of that split on its subcomponent delimiter;
\* a c or s out of range gives the empty string.
C21_DrillDownEverywhere ==
  ExtractedWithComponent =>
    \A i \in 1..Len(extraction.results) : TakenFromSegment(i) => DrilledDown(i)

\* C21, fields 1 and 2 of a header segment aside: these are returned whole,
\* whatever component the address names.
C21_DrillDownBelowHeaderBlock ==
  ExtractedWithComponent =>
    \A i \in 1..Len(extraction.results) :
       TakenFromSegment(i) =>
         IF HeaderBlock(i)
           THEN extraction.results[i].value
                  = AddressedField(SurvivingMessages[extraction.results[i].messageIndex + 1],
                                   SegmentOfExtraction(i), GivenAddress.field)
           ELSE DrilledDown(i)

\* PID.2.2.2 of PID#1#a$b*c^d under the delimiters #, $ and * is c^d
C21_Witness ==
  /\ ExtractedWithComponent
  /\ statsField = Chars("PID.2.2.2")
  /\ SurvivingMessages[1].componentSeparator = "$"
  /\ SurvivingMessages[1].subcomponentSeparator = "*"
  /\ TakenFromSegment(1)
  /\ SegmentOfExtraction(1).fields[2] = Chars("a$b*c^d")
  /\ extraction.results[1].value = Chars("c^d")

\* PID.2.2.2 of PID|1|doe^john&jr|x is jr
C21_DefaultDelimitersReached ==
  /\ ExtractedWithComponent
  /\ statsField = Chars("PID.2.2.2")
  /\ TakenFromSegment(1)
  /\ extraction.results[1].value = Chars("jr")

\* a component and a subcomponent out of range give the empty string
C21_OutOfRangeReached ==
  /\ ExtractedWithComponent
  /\ statsField \in { Chars("PID.2.3"), Chars("PID.2.2.3") }
  /\ \E i \in 1..Len(extraction.results) :
        /\ TakenFromSegment(i)
        /\ AddressedField(SurvivingMessages[extraction.results[i].messageIndex + 1],
                          SegmentOfExtraction(i), GivenAddress.field) # <<>>
        /\ extraction.results[i].value = <<>>

\* MSH.2.1 of the header MSH|^~\&|App|Fac^1 is the whole block ^~\&
C21_HeaderBlockWhole ==
  /\ ExtractedWithComponent
  /\ statsField = Chars("MSH.2.1")
  /\ \E i \in 1..Len(extraction.results) :
        extraction.results[i].value = Chars("^~\\&")


(***************************************************************************)
(* The segmenter on its own: Init writes a text of at most MaxSegmentLines *)
(* lines, header lines of several lengths, a padded PID line, a line of an *)
(* unknown kind and a blank line among them, in any order; the action      *)
(* applies parseMessagesForFiltering.                                      *)
(***************************************************************************)
\* a header that supplies the field separator and part of the encoding block
ShortHeaderLine == Chars("MSH!$~")

SegmentLines == { HeaderLine, DollarHeaderLine, ShortHeaderLine, S_MSH,
                  Chars(" PID|1|x "), Chars("ZZZ|1"), Chars("  ") }

RECURSIVE SegmentLineSeqs(_)
\* the sequences of at most n lines
SegmentLineSeqs(n) ==
  IF n = 0 THEN { <<>> }
  ELSE LET shorter == SegmentLineSeqs(n - 1)
       IN shorter \cup { Append(r, l) : l \in SegmentLines,
                                        r \in { q \in shorter : Len(q) = n - 1 } }

SegmentContents == { Join(lines, <<"\n">>) : lines \in SegmentLineSeqs(MaxSegmentLines) }

InitSegment ==
  /\ pc = "ready"
  /\ currentContent \in SegmentContents
  /\ statsField = <<>>
  /\ extraction = NoResult
  /\ calls = NoCalls
  /\ stats = NoResult
  /\ chartData = NoSlices
  /\ segmented = <<>>
  /\ PanelIdle
  /\ AddrIdle
  /\ FilterIdle
  /\ SingleIdle
  /\ LogicIdle
  /\ MatchIdle

\* const messages = parseMessagesForFiltering(content)
ParseMessagesForFiltering ==
  /\ pc = "ready"
  /\ segmented' = parseMessagesForFiltering(currentContent)
  /\ pc' = "parsed"
  /\ UNCHANGED <<currentContent, statsField, extraction, calls, stats, chartData,
                 addrVars, filterVars, singleVars, logicVars, matchVars, panelVars>>

NextSegment == ParseMessagesForFiltering

SpecSegment == InitSegment /\ [][NextSegment]_vars

\* the lines of the text that are not blank, without the blanks around them
TextLines ==
  LET lines == SplitLines(currentContent)
      kept == SelectSeq(lines, LAMBDA l : Trim(l) # <<>>)
  IN [i \in 1..Len(kept) |-> Trim(kept[i])]

\* the positions of the header lines among them, in ascending order
IsHeaderLine(l) == StartsWith(l, S_MSH)

HeaderPositions == { i \in 1..Len(TextLines) : IsHeaderLine(TextLines[i]) }

\* the position of the m-th header line
HeaderAt(m) ==
  CHOOSE i \in HeaderPositions :
    Cardinality({ j \in HeaderPositions : j <= i }) = m

\* the lines from the m-th header line up to the next one
LinesOfMessage(m) ==
  LET from == HeaderAt(m)
      later == { j \in HeaderPositions : j > from }
      upto == IF later = {} THEN Len(TextLines)
              ELSE (CHOOSE j \in later : \A k \in later : j <= k) - 1
  IN SubSeq(TextLines, from, upto)

\* the kind that a line starts with
KindOf(l) == SubSeq(l, 1, 3)

\* the lines of the m-th message whose kind is known
KnownLinesOfMessage(m) ==
  SelectSeq(LinesOfMessage(m), LAMBDA l : KindOf(l) \in HL7_SEGMENT_IDS)

\* the text was segmented
Segmented == pc = "parsed"

\* C22: the segmenter yields one message per line that is not blank and
\* starts with MSH, in the order of the text; every message has a segment,
\* its first segment is the header that opened it, and its segments are the
\* lines of known kind from that header up to the next one: lines of
\* unknown kind and lines before the first header are not stored, and a
\* text without a header line yields no message.
C22_OneMessagePerHeader ==
  Segmented =>
    /\ Len(segmented) = Cardinality(HeaderPositions)
    /\ \A m \in 1..Len(segmented) :
          /\ segmented[m].segments # <<>>
          /\ segmented[m].segments[1].segmentId = S_MSH
          /\ segmented[m].segments[1].fields
               = SplitChar(Substring(TextLines[HeaderAt(m)], 4),
                           segmented[m].fieldSeparator)
          /\ [k \in 1..Len(segmented[m].segments) |->
                segmented[m].segments[k].segmentId]
               = [k \in 1..Len(KnownLinesOfMessage(m)) |->
                    KindOf(KnownLinesOfMessage(m)[k])]
    /\ HeaderPositions = {} => segmented = <<>>

\* a PID line before the first header, then a header directly followed by
\* another header that is followed by a line of unknown kind: two messages
\* of one segment each
C22_Witness ==
  /\ Segmented
  /\ Len(TextLines) = 4
  /\ KindOf(TextLines[1]) = Chars("PID")
  /\ HeaderPositions = {2, 3}
  /\ KindOf(TextLines[4]) = Chars("ZZZ")
  /\ Len(segmented) = 2
  /\ Len(segmented[1].segments) = 1
  /\ Len(segmented[2].segments) = 1

\* a text of lines without a header: no message
C22_NoHeaderReached ==
  /\ Segmented
  /\ Len(TextLines) = 3
  /\ HeaderPositions = {}
  /\ segmented = <<>>

RECURSIVE ResolvedDelimiters(_, _)
\* the delimiters of the m-th message: those its header line supplies, the
\* component separator when the header is longer than `needed` characters,
\* and those of the message before it, or | ^ &, for the others
ResolvedDelimiters(m, needed) ==
  LET before == IF m = 1 THEN [fieldSeparator |-> "|", componentSeparator |-> "^",
                               subcomponentSeparator |-> "&"]
                ELSE ResolvedDelimiters(m - 1, needed)
      header == TextLines[HeaderAt(m)]
  IN [fieldSeparator |-> IF Len(header) > 3 THEN header[4] ELSE before.fieldSeparator,
      componentSeparator |-> IF Len(header) > needed THEN header[5]
                             ELSE before.componentSeparator,
      subcomponentSeparator |-> IF Len(header) > 7 THEN header[8]
                                ELSE before.subcomponentSeparator]

\* the delimiters recorded on a message or on a segment
DelimitersOn(r) ==
  [fieldSeparator |-> r.fieldSeparator, componentSeparator |-> r.componentSeparator,
   subcomponentSeparator |-> r.subcomponentSeparator]

\* every message and every segment of it carries the delimiters resolved at
\* the header of the message
DelimitersAsResolved(needed) ==
  \A m \in 1..Len(segmented) :
     /\ DelimitersOn(segmented[m]) = ResolvedDelimiters(m, needed)
     /\ \A k \in 1..Len(segmented[m].segments) :
           DelimitersOn(segmented[m].segments[k]) = ResolvedDelimiters(m, needed)

\* C23: the delimiters of a message are those of its own header line, the
\* field separator at index 3, the component separator at index 4 and the
\* subcomponent separator at index 7; a delimiter that the header is too
\* short to supply keeps the value of the preceding message, or the default
\* | ^ & in the first message; what is recorded on an earlier message and
\* its segments is not changed by a later header.
C23_DelimiterPerIndex ==
  Segmented => DelimitersAsResolved(4)

\* C23, with the component and the subcomponent separator taken together:
\* both are supplied only by a header of more than 7 characters, and both
\* keep the preceding values otherwise.
C23_EncodingBlockAsAWhole ==
  Segmented => DelimitersAsResolved(7)

\* a message with # $ * and a segment, then a bare MSH that keeps # $ *,
\* the first message still carrying its own delimiters
C23_Witness ==
  /\ Segmented
  /\ Len(segmented) = 3
  /\ TextLines[HeaderAt(1)] = HeaderLine
  /\ TextLines[HeaderAt(2)] = DollarHeaderLine
  /\ TextLines[HeaderAt(3)] = S_MSH
  /\ DelimitersOn(segmented[1]) = [fieldSeparator |-> "|", componentSeparator |-> "^",
                                   subcomponentSeparator |-> "&"]
  /\ DelimitersOn(segmented[3]) = [fieldSeparator |-> "#", componentSeparator |-> "$",
                                   subcomponentSeparator |-> "*"]
  /\ DelimitersOn(segmented[3].segments[1]) = DelimitersOn(segmented[3])

\* the header MSH!$~ first: its field separator is !, its component
\* separator stays ^ although the header has a character at index 4
C23_PartialBlockIgnored ==
  /\ Segmented
  /\ Len(segmented) >= 1
  /\ TextLines[HeaderAt(1)] = ShortHeaderLine
  /\ DelimitersOn(segmented[1]) = [fieldSeparator |-> "!", componentSeparator |-> "^",
                                   subcomponentSeparator |-> "&"]


(***************************************************************************)
(* What follows a NOT in an accepted expression (SpecLogic).               *)
(***************************************************************************)
\* every NOT of the tokens is followed, in the tokens, by a token that
\* satisfies Follows
NotsFollowedBy(toks, Follows(_)) ==
  \A i \in 1..Len(toks) :
     IsNotToken(toks[i]) => (i < Len(toks) /\ Follows(toks[i + 1]))

\* the expression was accepted
Accepted == pc = "done" /\ validation.valid

\* C24: validateCustomLogic accepts an expression only if every NOT in it
\* is immediately followed by a label or by an opening parenthesis: a NOT
\* followed by another NOT, by AND, by OR, by a closing parenthesis or by
\* the end is rejected.
C24_NotBeforeLabelOrOpen ==
  Accepted =>
    NotsFollowedBy(written.tokens,
                   LAMBDA tok : IsOperandToken(tok) \/ tok = <<"(">>)

\* what holds of the accepted expressions: with the parentheses taken out,
\* every NOT is followed by a label or by another NOT
C24_NotBeforeLabelOrNotFlattened ==
  Accepted =>
    NotsFollowedBy(WithoutParens(written.tokens),
                   LAMBDA tok : IsOperandToken(tok) \/ IsNotToken(tok))

\* ( NOT ) F1 was accepted
C24_NotBeforeCloseAccepted ==
  /\ Accepted
  /\ written.tokens = << <<"(">>, Chars("NOT"), <<")">>, Chars("F1") >>

\* NOT NOT F1 was accepted
C24_NotBeforeNotAccepted ==
  /\ Accepted
  /\ written.tokens = << Chars("NOT"), Chars("NOT"), Chars("F1") >>


(***************************************************************************)
(* The empty bucket of the frequency table (SpecStats).                    *)
(***************************************************************************)
\* C25: the empty bucket counts exactly the extractions that are empty
\* after trimming: no extracted value that is not empty is merged into it,
\* and its count is the number of empty extractions.
C25_EmptyBucketCountsBlanks ==
  CountedWithAddress => EmptyBucketCount = BlankExtractions

\* the same for the runs in which no extracted value is the text (empty)
C25_EmptyBucketWithoutSentinelText ==
  ( /\ CountedWithAddress
    /\ \A i \in 1..Len(extraction.results) :
          Trim(extraction.results[i].value) # S_empty ) =>
     EmptyBucketCount = BlankExtractions

\* PV1.1 over a message with PV1|(empty) and a message without PV1: one
\* empty extraction, and an empty bucket of count 2
C25_RealValueMerged ==
  /\ CountedWithAddress
  /\ statsField = Chars("PV1.1")
  /\ [i \in 1..Len(extraction.results) |-> extraction.results[i].value]
       = << S_empty, <<>> >>
  /\ BlankExtractions = 1
  /\ stats.distinctValues = << [value |-> S_empty, count |-> 2] >>


(***************************************************************************)
(* The evaluation of the expressions that the validator accepts.           *)
(***************************************************************************)
\* the path that the evaluation of the step took (SpecCustom)
EvaluationPath ==
  EvalOutcome(chosenFilters.expression,
     BuildFilterResults(<<>>, chosenFilters.filters, 1, message.segments,
                        message.componentSeparator, message.subcomponentSeparator)).path

\* C26: an expression that validateCustomLogic accepts for the declared
\* labels is evaluated to a boolean that the results of the conditions
\* determine: its evaluation never takes the way out that returns true for
\* leftover characters or for a thrown error.
C26_AcceptedNeverFallsBack ==
  (CustomEvaluated /\ PassedValidation) => EvaluationPath = "evaluated"

\* the same for the expressions written with blanks
C26_BlankSeparatedNeverFallsBack ==
  (CustomEvaluated /\ PassedValidation /\ logicTree.gap = " ") =>
     EvaluationPath = "evaluated"

\* NOT F2 written with a tab was accepted, took the way out for leftover
\* characters and included the message although F2 is true
C26_TabFallsBack ==
  /\ CustomEvaluated
  /\ PassedValidation
  /\ logicTree.ast = << "NOT", << "label", LabelOf(2) >> >>
  /\ logicTree.gap = "\t"
  /\ ResultOf(LabelOf(2))
  /\ EvaluationPath = "invalid characters"
  /\ matchResult = "true"

\* the filterResults in which every declared label of SpecLogic is true
AllTrue ==
  [i \in 1..Len(declaredLabels) |-> [key |-> declaredLabels[i], value |-> TRUE]]

\* (NOT) F1 was accepted by the validator and its evaluation throws
C26_AcceptedThrows ==
  /\ Accepted
  /\ written.tokens = << <<"(">>, Chars("NOT"), <<")">>, Chars("F1") >>
  /\ EvalOutcome(customExpr, AllTrue).path = "caught"


(***************************************************************************)
(* The counts of the statistics taken together (SpecStats).                *)
(***************************************************************************)
\* the number of messages that the statistics analysed
MessagesAnalysed ==
  IF stats.filterApplied THEN stats.filteredMessages ELSE stats.totalMessages

\* the filtered messages whose extractions are all empty after trimming
UnvaluedMessages ==
  { m \in 0..(Len(SurvivingMessages) - 1) :
      \A i \in 1..Len(extraction.results) :
         extraction.results[i].messageIndex = m
           => Trim(extraction.results[i].value) = <<>> }

\* C27: in a run with an address, messagesWithValue and messagesWithoutValue
\* add up to the number of messages analysed, filteredMessages when a filter
\* was applied and totalMessages otherwise; no message is counted in both;
\* and filteredMessages is at most totalMessages.
C27_CountsPartitionMessages ==
  CountedWithAddress =>
    /\ stats.messagesWithValue + stats.messagesWithoutValue = MessagesAnalysed
    /\ MessagesAnalysed = Len(SurvivingMessages)
    /\ stats.messagesWithValue = Cardinality(ValuedMessages)
    /\ stats.messagesWithoutValue = Cardinality(UnvaluedMessages)
    /\ ValuedMessages \cap UnvaluedMessages = {}
    /\ extraction.filteredMessages <= extraction.totalMessages
    /\ stats.filterApplied => stats.filteredMessages <= stats.totalMessages

\* a filter kept one of two messages, and its PID.2 has a value
C27_Witness ==
  /\ CountedWithAddress
  /\ statsField = Chars("PID.2")
  /\ stats.filterApplied
  /\ stats.totalMessages = 2
  /\ stats.filteredMessages = 1
  /\ stats.messagesWithValue = 1
  /\ stats.messagesWithoutValue = 0

\* a message with a blank and a full extraction, counted once
C27_MixedMessageReached ==
  /\ CountedWithAddress
  /\ \E m \in ValuedMessages :
        \E i \in 1..Len(extraction.results) :
           /\ extraction.results[i].messageIndex = m
           /\ Trim(extraction.results[i].value) = <<>>
  /\ stats.messagesWithValue + stats.messagesWithoutValue = stats.totalMessages


(***************************************************************************)
(* The entries of distinctValues against the occurrences of the values.    *)
(***************************************************************************)
\* the trimmed values of the extractions
TrimmedValues ==
  { Trim(extraction.results[i].value) : i \in 1..Len(extraction.results) }

\* the number of extractions whose trimmed value is v
Occurrences(v) ==
  Cardinality({ i \in 1..Len(extraction.results) :
                  Trim(extraction.results[i].value) = v })

\* the number of extractions counted under the display value d
OccurrencesShownAs(d) ==
  Cardinality({ i \in 1..Len(extraction.results) :
                  DisplayValue(extraction.results[i].value) = d })

\* the positions of distinctValues that carry the value d
EntriesOf(d) ==
  { i \in 1..Len(stats.distinctValues) : stats.distinctValues[i].value = d }

\* C28: each distinct trimmed value of the extractions appears in exactly one
\* entry of distinctValues, with a count equal to the number of its
\* occurrences, and the counts of distinctValues sum to totalOccurrences.
C28_EachValueCountedOnce ==
  CountedWithAddress =>
    /\ \A v \in TrimmedValues :
         /\ Cardinality(EntriesOf(DisplayValue(v))) = 1
         /\ \A i \in EntriesOf(DisplayValue(v)) :
              stats.distinctValues[i].count = Occurrences(v)
    /\ SumCounts(stats.distinctValues) = stats.totalOccurrences

\* the same by display value, for the values that name no inherited property
C28_EachOwnDisplayValueCountedOnce ==
  CountedWithAddress =>
    /\ \A v \in TrimmedValues :
         /\ Cardinality(EntriesOf(DisplayValue(v))) = 1
         /\ v \notin InheritedKeys =>
              \A i \in EntriesOf(DisplayValue(v)) :
                 stats.distinctValues[i].count = OccurrencesShownAs(DisplayValue(v))
    /\ TrimmedValues \cap InheritedKeys = {} =>
         SumCounts(stats.distinctValues) = stats.totalOccurrences
    /\ \A i \in 1..Len(stats.distinctValues) :
         stats.distinctValues[i].value \in { DisplayValue(v) : v \in TrimmedValues }

\* PID.2 of SMITH and constructor: constructor is listed with a count that is
\* not a number
C28_InheritedKeyNotANumber ==
  /\ CountedWithAddress
  /\ statsField = Chars("PID.2")
  /\ [i \in 1..Len(extraction.results) |-> extraction.results[i].value]
       = << Chars("SMITH"), Chars("constructor") >>
  /\ stats.distinctValues = << [value |-> Chars("SMITH"), count |-> 1],
                               [value |-> Chars("constructor"), count |-> NaN] >>
  /\ stats.totalOccurrences = 2

\* constructor extracted three times is listed with the count 2
C28_InheritedKeyOneShort ==
  /\ CountedWithAddress
  /\ Occurrences(Chars("constructor")) = 3
  /\ stats.distinctValues = << [value |-> Chars("constructor"), count |-> 2] >>
  /\ stats.totalOccurrences = 3

\* the value (empty) extracted once next to one empty extraction: one entry
\* with the count 2
C28_SentinelTextMerged ==
  /\ CountedWithAddress
  /\ Occurrences(S_empty) = 1
  /\ Occurrences(<<>>) = 1
  /\ stats.distinctValues = << [value |-> S_empty, count |-> 2] >>

(***************************************************************************)
(* Three conditions F1, F2 and F3 combined by a custom expression without  *)
(* parentheses: Init writes at most MaxWords words, labels and operators,  *)
(* in upper or lower case with a blank in between; the action applies      *)
(* messageMatchesFilters.                                                  *)
(***************************************************************************)
FlatLabels == { LabelOf(1), LabelOf(2), LabelOf(3) }
FlatWords == FlatLabels \cup { Chars("AND"), Chars("OR"), Chars("NOT") }

RECURSIVE WordSeqs(_)
\* the sequences of 1 to n words
WordSeqs(n) ==
  IF n = 0 THEN { <<>> }
  ELSE LET shorter == WordSeqs(n - 1)
       IN shorter \cup { Append(r, w) : w \in FlatWords,
                                        r \in { q \in shorter : Len(q) = n - 1 } }

\* labels, each after any number of NOT, with AND or OR in between
WellFormed(words) ==
  /\ words # <<>>
  /\ words[Len(words)] \in FlatLabels
  /\ \A i \in 1..(Len(words) - 1) :
       IF words[i] \in FlatLabels
         THEN words[i + 1] \in { Chars("AND"), Chars("OR") }
         ELSE words[i + 1] \in FlatLabels \cup { Chars("NOT") }
  /\ words[1] \in FlatLabels \cup { Chars("NOT") }

FlatExpressions == { words \in WordSeqs(MaxWords) : WellFormed(words) }

\* the text of the words
FlatText(words, style) ==
  Join([i \in 1..Len(words) |-> Word(words[i], style)], <<style.gap>>)

InitFlat ==
  /\ pc = "ready"
  /\ message = parseMessagesForFiltering(MessageText(<< Chars("PID|2|SMITH") >>))[1]
  /\ condition = Null
  /\ singleResult = FALSE
  /\ logicTree \in { [words |-> ws, letters |-> l, gap |-> " "] :
                       ws \in FlatExpressions, l \in {"upper", "lower"} }
  /\ \E inputs \in [1..3 -> CustomInputs] :
        chosenFilters = getFiltersConfig(RowsOf(inputs), "custom",
                                         FlatText(logicTree.words, logicTree))
  /\ matchResult = "undefined"
  /\ AddrIdle
  /\ FilterIdle
  /\ LogicIdle
  /\ RunIdle
  /\ PanelIdle

NextFlat == MessageMatchesFilters

SpecFlat == InitFlat /\ [][NextFlat]_vars

\* the positions of the word op, and the two ends
Cuts(words, op) ==
  { 0, Len(words) + 1 } \cup { i \in 1..Len(words) : words[i] = op }

\* the stretches of words between two neighbouring words op
Stretches(words, op) ==
  { SubSeq(words, p[1] + 1, p[2] - 1) :
      p \in { q \in Cuts(words, op) \X Cuts(words, op) :
                /\ q[1] < q[2]
                /\ \A d \in Cuts(words, op) : ~(q[1] < d /\ d < q[2]) } }

RECURSIVE TermValue(_)
\* a label after any number of NOT
TermValue(term) ==
  IF Head(term) = Chars("NOT") THEN ~TermValue(Tail(term)) ELSE ResultOf(Head(term))

\* NOT first, then AND, then OR: a disjunction of conjunctions of terms
FlatValue(words) ==
  \E disjunct \in Stretches(words, Chars("OR")) :
     \A term \in Stretches(disjunct, Chars("AND")) : TermValue(term)

\* messageMatchesFilters has run on a custom expression of blank-separated
\* words
FlatEvaluated == pc = "done" /\ chosenFilters.logic = "custom"

\* C29: in an expression without parentheses NOT binds tighter than AND and
\* AND tighter than OR, for all truth values of the conditions: F1 OR F2 AND
\* F3 is F1 OR (F2 AND F3), NOT F1 AND F2 is (NOT F1) AND F2.
C29_NotThenAndThenOr ==
  FlatEvaluated =>
    /\ PassedValidation
    /\ JsTruthy(matchResult) <=> FlatValue(logicTree.words)
    /\ ToUpperCase(chosenFilters.expression) = Chars("F1 OR F2 AND F3") =>
         (JsTruthy(matchResult) <=>
            (ResultOf(LabelOf(1)) \/ (ResultOf(LabelOf(2)) /\ ResultOf(LabelOf(3)))))
    /\ ToUpperCase(chosenFilters.expression) = Chars("NOT F1 AND F2") =>
         (JsTruthy(matchResult) <=> (~ResultOf(LabelOf(1)) /\ ResultOf(LabelOf(2))))

\* F1 OR F2 AND F3 with F1 true and F3 false includes the message
C29_Witness ==
  /\ FlatEvaluated
  /\ chosenFilters.expression = Chars("F1 OR F2 AND F3")
  /\ ResultOf(LabelOf(1))
  /\ ~ResultOf(LabelOf(2))
  /\ ~ResultOf(LabelOf(3))
  /\ matchResult = "true"

\* not f1 and f2 with both conditions true excludes the message
C29_NotBindsFirst ==
  /\ FlatEvaluated
  /\ chosenFilters.expression = Chars("not f1 and f2")
  /\ ResultOf(LabelOf(1))
  /\ ResultOf(LabelOf(2))
  /\ matchResult = "false"

(***************************************************************************)
(* The filter rows of the statistics panel (server.js): rows are added and *)
(* removed, texts are typed into the inputs, a radio button is checked,    *)
(* and resetFilters puts the panel back. The panel is                      *)
(* [filterCounter, rows]; pc names the handler that ran last.              *)
(***************************************************************************)
\* a new row numbered by the rows on the page
addFilterRowNumberedByRows(counter, rows) ==
  [filterCounter |-> counter + 1,
   rows |-> Append(rows, [label |-> LabelOf(Len(rows) + 1), input |-> <<>>])]

\* filterCounter++, then the row F${filterCounter} appended with an empty input
addFilterRow(counter, rows) ==
  [filterCounter |-> counter + 1,
   rows |-> Append(rows, [label |-> LabelOf(counter + 1), input |-> <<>>])]

\* row.remove()
removeFilterRow(rows, i) ==
  SubSeq(rows, 1, i - 1) \o SubSeq(rows, i + 1, Len(rows))

\* updateFilterLogicVisibility: the remove buttons are visible, and can be
\* clicked, when there is more than one row
RemoveButtonsVisible(rows) == Len(rows) > 1

\* what resetFilters leaves
resetFilters ==
  [filterCounter |-> 1, rows |-> << FirstRow >>, customLogicValue |-> <<>>,
   filterLogic |-> "AND"]

PanelInputs == { <<>>, Chars("PID.2 = smith"), Chars("  ") }
PanelExpressions == { <<>>, Chars("F1 AND F2") }

InitPanel ==
  /\ pc = "loaded"
  /\ PanelIdle
  /\ AddrIdle
  /\ FilterIdle
  /\ SingleIdle
  /\ LogicIdle
  /\ MatchIdle
  /\ RunIdle

Others == <<addrVars, filterVars, singleVars, logicVars, matchVars, runVars>>

\* a click on the add filter button
AddFilterRow ==
  /\ filterCounter < MaxCounter
  /\ filterCounter' = addFilterRow(filterCounter, statsFiltersList).filterCounter
  /\ statsFiltersList' = addFilterRow(filterCounter, statsFiltersList).rows
  /\ pc' = "added"
  /\ UNCHANGED <<filterLogic, customLogicValue, Others>>

\* a click on the remove button of a row
RemoveFilterRow ==
  /\ RemoveButtonsVisible(statsFiltersList)
  /\ \E i \in 1..Len(statsFiltersList) :
        statsFiltersList' = removeFilterRow(statsFiltersList, i)
  /\ pc' = "removed"
  /\ UNCHANGED <<filterCounter, filterLogic, customLogicValue, Others>>

\* a text typed into the input of a row
TypeFilter ==
  /\ \E i \in 1..Len(statsFiltersList) : \E text \in PanelInputs :
        statsFiltersList' = [statsFiltersList EXCEPT ![i].input = text]
  /\ pc' = "typed"
  /\ UNCHANGED <<filterCounter, filterLogic, customLogicValue, Others>>

\* a filterLogic radio button checked
CheckFilterLogic ==
  /\ \E value \in {"AND", "OR", "custom"} : filterLogic' = value
  /\ pc' = "checked"
  /\ UNCHANGED <<filterCounter, statsFiltersList, customLogicValue, Others>>

\* a text typed into the custom logic input
TypeCustomLogic ==
  /\ \E text \in PanelExpressions : customLogicValue' = text
  /\ pc' = "typed"
  /\ UNCHANGED <<filterCounter, statsFiltersList, filterLogic, Others>>

\* resetFilters, called when the page is cleared
ResetFilters ==
  /\ filterCounter' = resetFilters.filterCounter
  /\ statsFiltersList' = resetFilters.rows
  /\ customLogicValue' = resetFilters.customLogicValue
  /\ filterLogic' = resetFilters.filterLogic
  /\ pc' = "reset"
  /\ UNCHANGED Others

NextPanel ==
  \/ AddFilterRow
  \/ RemoveFilterRow
  \/ TypeFilter
  \/ CheckFilterLogic
  \/ TypeCustomLogic
  \/ ResetFilters

SpecPanel == InitPanel /\ [][NextPanel]_vars

\* the labels of the rows, in the order of the rows
RowLabels == [i \in 1..Len(statsFiltersList) |-> statsFiltersList[i].label]

\* the conditions getFiltersConfig hands to a run that carry the label
ConditionsLabelled(label) ==
  LET config == getFiltersConfig(statsFiltersList, filterLogic, customLogicValue)
  IN IF config = NoFilters THEN {}
     ELSE { i \in 1..Len(config.filters) : config.filters[i].label = label }

\* no two rows carry the same label, every label was given by addFilterRow
\* since the last reset, and a label denotes at most one condition
LabelsDistinct ==
  /\ \A i \in 1..Len(RowLabels) : \A j \in (i + 1)..Len(RowLabels) :
        RowLabels[i] # RowLabels[j]
  /\ \A i \in 1..Len(RowLabels) : \E k \in 1..filterCounter : RowLabels[i] = LabelOf(k)
  /\ \A k \in 1..MaxCounter : Cardinality(ConditionsLabelled(LabelOf(k))) <= 1

\* the row added last carries the label of the counter
AddedRowIsNew ==
  pc = "added" => RowLabels[Len(RowLabels)] = LabelOf(filterCounter)

\* after resetFilters: the single row F1, logic AND, no custom expression
ResetToFirstRow ==
  pc = "reset" =>
    /\ RowLabels = << Chars("F1") >>
    /\ statsFiltersList[1].input = <<>>
    /\ filterLogic = "AND"
    /\ customLogicValue = <<>>
    /\ filterCounter = 1

\* the counter only grows, but for resetFilters
CounterGrowsUntilReset == filterCounter' >= filterCounter \/ pc' = "reset"

\* C30: after any sequence of add-filter and remove-filter actions no two
\* filter rows carry the same label, a removed label is not reused until
\* resetFilters, each label of a custom expression denotes at most one
\* condition, and resetFilters returns the list to the single row F1 with
\* logic AND and an empty custom expression.
C30_LabelsNeverShared ==
  /\ [](LabelsDistinct /\ AddedRowIsNew /\ ResetToFirstRow)
  /\ [][CounterGrowsUntilReset]_vars

\* F1 and F2 removed, then a row added: the rows are F3 and F4
C30_Witness ==
  /\ pc = "added"
  /\ RowLabels = << Chars("F3"), Chars("F4") >>
  /\ filterCounter = 4

\* resetFilters ran and left the one row F1 with logic AND
C30_ResetReached ==
  /\ pc = "reset"
  /\ statsFiltersList = << FirstRow >>
  /\ filterLogic = "AND"
====
